---- MODULE Spec2Model ----
(***************************************************************************)
(* Model of the statement loaders of personal_expenses_app: the Banamex,   *)
(* Wells Fargo, Chase and Citi PDF adapters (infrastructure/*_file_loader) *)
(* as line-by-line state machines.                                         *)
(*                                                                         *)
(* A line of extracted text is a sequence of tokens (the text split on     *)
(* whitespace). A token carries its literal text and what the loaders'     *)
(* regular expressions can see of it: a word, a 1-2 digit number, an       *)
(* amount ([\d,]+\.\d{2}, with an optional sign/dollar prefix) or an M/D   *)
(* date. Amounts are integers in cents. An optional value (None in the     *)
(* code) is a sequence of length 0 or 1.                                   *)
(***************************************************************************)
EXTENDS Integers, Sequences, FiniteSets, TLC

VARIABLES
    loader,                  \* which adapter's _extract_transactions_from_pdf runs
    filename,                \* the source identifier: what -(\w+)-(\d{4}) finds in it
    lines,                   \* the lines of the document (for Citi: of its page)
    i,                       \* number of lines scanned so far
    pc,                      \* "start" | "scan" | "done" | "error" | "notfound" | "raised"
    in_transaction_section,  \* Banamex, Wells Fargo, Citi
    current_transaction,     \* Banamex: the pending transaction
    previous_balance,        \* Banamex: self.previous_balance
    pending_line,            \* Wells Fargo
    in_payments_section,     \* Citi
    current_cardholder,      \* Citi
    pending_description,     \* Citi
    skip_next_line,          \* Citi
    current_section,         \* Chase: None | "credits" | "debits"
    credits,                 \* Chase
    debits,                  \* Chase
    transactions,            \* all_transactions / transactions, in append order
    df,                      \* the returned frame: the sequence of its rows
    file_list,               \* load_and_label_multiple_files: for each file, whether it exists
    file_index,              \* number of files of file_list the loop has handled
    all_expenses,            \* the frames appended so far
    warnings,                \* number of "Warning: File not found" lines printed
    combined,                \* the frame load_and_label_multiple_files returns
    batch_pc,                \* "idle" | "loop" | "load" | "done" | "error"
    corrections_file,        \* FilePersistence: None, or the rows of corrections.csv as text
    corrections,             \* FilePersistence: the frame save_corrections was last given
    calls,                   \* number of earlier calls of _extract_transactions_from_pdf on the loader
    page_begin,              \* number of lines of the document on the pages before the current one
    page_end,                \* Citi: number of lines of the document up to the end of the current page
    expenses,                \* main: the frame of categorized expenses
    corrections_df,          \* main: the frame load_corrections returned
    all_labeled_expenses,    \* main: the labelled expenses of earlier statements
    summary,                 \* main: the frame summarize_by_category returned
    stage                    \* main: "idle" | "predicted" | "corrected" | "summarized"

vars == << loader, filename, lines, i, pc, in_transaction_section,
           current_transaction, previous_balance, pending_line, in_payments_section,
           current_cardholder, pending_description, skip_next_line, current_section,
           credits, debits, transactions, df,
           file_list, file_index, all_expenses, warnings, combined, batch_pc,
           corrections_file, corrections, calls, page_begin, page_end,
           expenses, corrections_df, all_labeled_expenses, summary, stage >>

CategoryVars == << expenses, corrections_df, all_labeled_expenses, summary, stage >>

-----------------------------------------------------------------------------
(* Optional values *)

None == << >>
Some(x) == << x >>

-----------------------------------------------------------------------------
(* Tokens *)

W(t) == [k |-> "w", p |-> "", t |-> t, v |-> 0, m |-> 0]
\* a run of one or two digits, e.g. the "01" of "01 ENE"
N(t, n) == [k |-> "num", p |-> "", t |-> t, v |-> n, m |-> 0]
\* an amount: p is what precedes the digits ("", "$", "-$"), t the digits, c the cents
A(p, t, c) == [k |-> "amt", p |-> p, t |-> t, v |-> c, m |-> 0]
\* a date token M/D
D(t, mo, dy) == [k |-> "date", p |-> "", t |-> t, v |-> dy, m |-> mo]

TokText(tok) == tok.p \o tok.t

RECURSIVE JoinText(_)
\* " ".join(...) of the tokens' texts
JoinText(toks) ==
    IF toks = << >> THEN ""
    ELSE IF Len(toks) = 1 THEN TokText(toks[1])
    ELSE TokText(toks[1]) \o " " \o JoinText(Tail(toks))

RECURSIVE Flatten(_)
Flatten(ss) == IF ss = << >> THEN << >> ELSE ss[1] \o Flatten(Tail(ss))

SelectToks(toks, kind) == SelectSeq(toks, LAMBDA x : x.k = kind)

\* "phrase in text" for a phrase of whole words: the words occur consecutively
HasPhrase(words, phrase) ==
    \E s \in 1..(Len(words) - Len(phrase) + 1) :
        \A j \in 1..Len(phrase) : words[s + j - 1] = phrase[j]

\* text.startswith(phrase + " ") / text.startswith(phrase) on whole words
StartsWithPhrase(words, phrase) ==
    /\ Len(words) >= Len(phrase)
    /\ \A j \in 1..Len(phrase) : words[j] = phrase[j]

Texts(toks) == [j \in 1..Len(toks) |-> TokText(toks[j])]

\* str.upper() and str.lower() of the words the documents use
UpperOf(t) ==
    CASE t = "abono" -> "ABONO"
      [] t = "Deposit" -> "DEPOSIT"
      [] t = "Pago" -> "PAGO"
      [] t = "Recibido" -> "RECIBIDO"
      [] OTHER -> t

LowerOf(t) ==
    CASE t = "Deposit" -> "deposit"
      [] t = "DEPOSIT" -> "deposit"
      [] t = "Refund" -> "refund"
      [] t = "Transfer" -> "transfer"
      [] t = "From" -> "from"
      [] t = "Interest" -> "interest"
      [] t = "Mortgage" -> "mortgage"
      [] t = "Check" -> "check"
      [] t = "Payment" -> "payment"
      [] OTHER -> t

Upper(words) == [j \in 1..Len(words) |-> UpperOf(words[j])]
Lower(words) == [j \in 1..Len(words) |-> LowerOf(words[j])]

-----------------------------------------------------------------------------
(* The source identifier *)

DefaultYear == 2025

\* year_match.group(2) if year_match else "2025"
YearOf(f) == IF f.match THEN f.yr ELSE DefaultYear

-----------------------------------------------------------------------------
(* Dates: pd.to_datetime(..., errors="coerce") and DataFrame.sort_values *)

NaT == [d |-> 0, m |-> 0, y |-> 0]

IsLeap(y) == (y % 4 = 0 /\ y % 100 # 0) \/ y % 400 = 0

DaysInMonth(m, y) ==
    IF m \in {4, 6, 9, 11} THEN 30
    ELSE IF m = 2 THEN (IF IsLeap(y) THEN 29 ELSE 28)
    ELSE 31

\* a day/month/year string that is no calendar date becomes NaT
ToDatetime(date) ==
    IF date.m \in 1..12 /\ date.d >= 1 /\ date.d <= DaysInMonth(date.m, date.y)
    THEN date
    ELSE NaT

DateKey(date) == date.y * 10000 + date.m * 100 + date.d

\* the frame built from the records: Date parsed, Debit/Credit numeric
Frame(recs) == [j \in 1..Len(recs) |-> [recs[j] EXCEPT !.Date = ToDatetime(@)]]

Perms(n) == { p \in [1..n -> 1..n] : \A a, b \in 1..n : a # b => p[a] # p[b] }

\* p orders the rows by Date ascending with NaT last; rows that are NaT keep
\* their order. Rows with equal dates come in any order: the default sort kind
\* of sort_values is quicksort, which is not stable.
IsDateOrder(rows, p) ==
    \A a, b \in 1..Len(rows) : a < b =>
        LET x == rows[p[a]].Date
            y == rows[p[b]].Date
        IN  /\ (x = NaT => y = NaT /\ p[a] < p[b])
            /\ (x # NaT /\ y # NaT => DateKey(x) <= DateKey(y))

\* the outcomes of df.sort_values("Date").reset_index(drop=True)
SortValues(rows) ==
    { [j \in 1..Len(rows) |-> rows[p[j]]] : p \in { q \in Perms(Len(rows)) : IsDateOrder(rows, q) } }

-----------------------------------------------------------------------------
(* Transaction records *)

\* RowBothSides is a faulty Row that fills both Debit and Credit.
\* one row: Date is the day/month/year of the date string; exactly the fields
\* of the dict the loaders append. seq numbers the records in the order their
\* lines were parsed (the order of encounter in the document).
RowBothSides(date, description, debit, credit, seq) ==
    [Date |-> date, Description |-> description,
     Debit |-> IF debit # None THEN debit ELSE credit,
     Credit |-> IF credit # None THEN credit ELSE debit,
     seq |-> seq]

Row(date, description, debit, credit, seq) ==
    [Date |-> date, Description |-> description, Debit |-> debit, Credit |-> credit,
     seq |-> seq]

\* round(x, 2) of a quotient n/d of cents: Python rounds half to even
RoundHalfEven(n, d) ==
    LET q == n \div d
        r == n % d
    IN  IF 2 * r < d THEN q
        ELSE IF 2 * r > d THEN q + 1
        ELSE IF q % 2 = 0 THEN q ELSE q + 1

-----------------------------------------------------------------------------
(* Banamex: banamex_file_loader.py *)

\* PESO_TO_DOLLAR_RATE = 18.5, times ten
PesoToDollarRateTenths == 185

\* _convert_to_dollars: round(peso_amount / 18.5, 2), in cents
\* a faulty conversion that truncates instead of rounding
ConvertTruncating(peso_amount) == (10 * peso_amount) \div PesoToDollarRateTenths

ConvertToDollars(peso_amount) == RoundHalfEven(10 * peso_amount, PesoToDollarRateTenths)

\* _parse_month_abbrev: months.get(month_abbrev.upper(), "01")
ParseMonthAbbrev(month_abbrev) ==
    CASE month_abbrev = "ENE" -> 1
      [] month_abbrev = "FEB" -> 2
      [] month_abbrev = "MAR" -> 3
      [] month_abbrev = "ABR" -> 4
      [] month_abbrev = "MAY" -> 5
      [] month_abbrev = "JUN" -> 6
      [] month_abbrev = "JUL" -> 7
      [] month_abbrev = "AGO" -> 8
      [] month_abbrev = "SEP" -> 9
      [] month_abbrev = "OCT" -> 10
      [] month_abbrev = "NOV" -> 11
      [] month_abbrev = "DIC" -> 12
      [] OTHER -> 1

\* the words of the documents that [A-Z]{3} matches
ThreeUpper ==
    {"ENE", "FEB", "MAR", "ABR", "MAY", "JUN", "JUL", "AGO", "SEP", "OCT", "NOV",
     "DIC", "SUC", "AUT", "XYZ"}

\* the words of the documents that contain "DEP"
WordsWithDEP == {"DEPOSITOS", "DEPOSITO"}

BanamexCreditKeywords ==
    { <<"PAGO", "RECIBIDO">>, <<"DEPOSITO">>, <<"ABONO">>,
      <<"TRANSFERENCIA", "RECIBIDA">>, <<"EXENCION">>, <<"INTERES">> }

\* the words of the documents that contain a one-word keyword without being it
BanamexKeywordInside(word) ==
    CASE word = "DEPOSITOS" -> {"DEPOSITO"}
      [] word = "INTERESES" -> {"INTERES"}
      [] OTHER -> {}

\* a faulty keyword test that finds no keyword
BanamexNoCreditKeyword(description) == FALSE

\* any(keyword in description.upper() for keyword in credit_keywords)
BanamexHasCreditKeyword(description) ==
    LET up == Upper(Texts(description))
    IN  \E kw \in BanamexCreditKeywords :
            \/ HasPhrase(up, kw)
            \/ Len(kw) = 1 /\ \E j \in 1..Len(up) : kw[1] \in BanamexKeywordInside(up[j])

\* re.findall(r"[\d,]+\.\d\s?\d", text), as cents
BanamexAmounts(toks) ==
    LET amts == SelectToks(toks, "amt")
    IN  [j \in 1..Len(amts) |-> amts[j].v]

RECURSIVE BanamexDesc(_)
\* the text with each amount found removed: what preceded its digits stays
BanamexDesc(toks) ==
    IF toks = << >> THEN << >>
    ELSE LET h == toks[1]
         IN  IF h.k = "amt"
             THEN (IF h.p = "" THEN << >> ELSE << W(h.p) >>) \o BanamexDesc(Tail(toks))
             ELSE << h >> \o BanamexDesc(Tail(toks))

\* "FECHA CONCEPTO" in line and ("RETIROS" in line or "DEP" in line)
BanamexIsHeader(line) ==
    /\ HasPhrase(Texts(line), <<"FECHA", "CONCEPTO">>)
    /\ \E j \in 1..Len(line) : line[j].t \in ({"RETIROS"} \cup WordsWithDEP)

\* a faulty test that recognizes no end of section
BanamexNoSectionEnd(line) == FALSE

\* "Resumen Operaciones" in line or line_stripped.startswith("TARJETA ")
BanamexIsSectionEnd(line) ==
    \/ HasPhrase(Texts(line), <<"Resumen", "Operaciones">>)
    \/ Len(line) >= 2 /\ line[1].t = "TARJETA"

\* a faulty test that recognizes no page marker
BanamexNoPageMarker(line) == FALSE

\* line_stripped.startswith("Pagina ") in either spelling
BanamexIsPageMarker(line) == Len(line) >= 2 /\ line[1].t = "Pagina"

\* header repetitions, page markers and empty lines
BanamexIsSkipped(line) ==
    \/ line = << >>
    \/ HasPhrase(Texts(line), <<"FECHA", "CONCEPTO">>)
    \/ line[1].t \in {"000", "0001"}
    \/ HasPhrase(Texts(line), <<"Detalle", "de", "Operaciones">>)
    \/ HasPhrase(Texts(line), <<"En", "pesos", "Moneda", "Nacional">>)

\* re.match(r"^(\d{1,2})\s+([A-Z]{3})\s+(.+)$", line_stripped)
BanamexDateMatch(line) ==
    /\ Len(line) >= 3
    /\ line[1].k = "num"
    /\ line[2].k = "w" /\ line[2].t \in ThreeUpper

\* the words of the documents that ^\d{8,}$ matches
LongDigitWords == {"12345678"}

\* a faulty test that takes no line as metadata
BanamexNoMetadata(line) == FALSE

\* a line starting "SUC ", "CAJA ", "HORA ", "AUT ", or made of 8 or more digits
BanamexIsMetadata(line) ==
    \/ Len(line) >= 2 /\ line[1].t \in {"SUC", "CAJA", "HORA", "AUT"}
    \/ Len(line) = 1 /\ line[1].t \in LongDigitWords

\* a faulty resolution that takes a single amount as the transaction amount
BanamexResolveSingle(amounts) ==
    Some([transaction_amount |-> amounts[1], balance |-> amounts[Len(amounts)]])

\* the transaction amount and the balance among the amounts, None for one amount
BanamexResolve(amounts) ==
    IF Len(amounts) = 1 THEN None
    ELSE IF Len(amounts) = 2
    THEN Some([transaction_amount |-> amounts[1], balance |-> amounts[2]])
    ELSE Some([transaction_amount |-> amounts[1], balance |-> amounts[Len(amounts)]])

\* a faulty direction that looks at the balance first
BanamexIsCreditByBalance(description, balance, pb) ==
    IF pb # None THEN balance > pb[1] ELSE BanamexHasCreditKeyword(description)

\* a faulty direction that takes every balance that does not fall, and a
\* missing previous balance, for a credit
BanamexIsCreditUnlessFalling(description, balance, pb) ==
    \/ BanamexHasCreditKeyword(description)
    \/ pb = None
    \/ balance >= pb[1]

\* a faulty direction that looks at the keywords only
BanamexIsCreditByKeyword(description, balance, pb) == BanamexHasCreditKeyword(description)

\* is_credit: a credit keyword, or a balance above the previous balance
BanamexIsCredit(description, balance, pb) ==
    \/ BanamexHasCreditKeyword(description)
    \/ pb # None /\ balance > pb[1]

\* _add_transaction: the new all_transactions and self.previous_balance
BanamexAddTransaction(transaction, all_transactions, pb, year) ==
    LET amounts == transaction.amounts
        description == Flatten(transaction.description_lines)
        same == [all |-> all_transactions, pb |-> pb]
    IN  IF amounts = << >> THEN same
        ELSE IF description = << >>
                \/ HasPhrase(Upper(Texts(description)), <<"SALDO", "ANTERIOR">>)
        THEN [all |-> all_transactions,
              pb |-> IF Len(amounts) = 1 THEN Some(amounts[1]) ELSE pb]
        ELSE IF BanamexResolve(amounts) = None THEN same
        ELSE LET transaction_amount == BanamexResolve(amounts)[1].transaction_amount
                 balance == BanamexResolve(amounts)[1].balance
                 is_credit == BanamexIsCredit(description, balance, pb)
                 amount_dollars == ConvertToDollars(transaction_amount)
                 date == [d |-> transaction.day, m |-> transaction.month, y |-> year]
             IN  [all |-> Append(all_transactions,
                                 Row(date, JoinText(description),
                                     IF is_credit THEN None ELSE Some(amount_dollars),
                                     IF is_credit THEN Some(amount_dollars) ELSE None,
                                     Len(all_transactions) + 1)),
                  pb |-> Some(balance)]

\* a faulty finalization that drops the pending transaction
BanamexFinalizeDrop(ct, all_transactions, pb, year) == [all |-> all_transactions, pb |-> pb]

\* if current_transaction: self._add_transaction(current_transaction, ...)
BanamexFinalize(ct, all_transactions, pb, year) ==
    IF ct = None THEN [all |-> all_transactions, pb |-> pb]
    ELSE BanamexAddTransaction(ct[1], all_transactions, pb, year)

\* the pending transaction a date line opens
BanamexStart(line) ==
    LET rest == SubSeq(line, 3, Len(line))
        amounts == BanamexAmounts(rest)
        desc == BanamexDesc(rest)
    IN  [day |-> line[1].v,
         month |-> ParseMonthAbbrev(line[2].t),
         description_lines |->
             IF desc # << >> /\ Upper(Texts(desc)) # <<"SALDO", "ANTERIOR">>
             THEN << desc >> ELSE << >>,
         amounts |-> amounts]

\* a faulty continuation that appends the amounts of the line to those held
BanamexContinueAppend(t, line) ==
    [t EXCEPT !.description_lines =
                  IF BanamexDesc(line) # << >> /\ BanamexDesc(line)[1].t # "$"
                  THEN Append(@, BanamexDesc(line)) ELSE @,
              !.amounts = @ \o BanamexAmounts(line)]

\* a faulty continuation that keeps the description of the last line only
BanamexContinueLastLine(t, line) ==
    [t EXCEPT !.description_lines =
                  IF BanamexDesc(line) # << >> THEN << BanamexDesc(line) >> ELSE @,
              !.amounts = IF BanamexAmounts(line) # << >> THEN BanamexAmounts(line) ELSE @]

\* the pending transaction after a continuation line
BanamexContinue(t, line) ==
    LET amounts == BanamexAmounts(line)
        desc == BanamexDesc(line)
    IN  IF BanamexIsMetadata(line)
        THEN [t EXCEPT !.amounts = IF amounts # << >> THEN amounts ELSE @]
        ELSE [t EXCEPT
                !.description_lines =
                    IF desc # << >> /\ desc[1].t # "$" THEN Append(@, desc) ELSE @,
                !.amounts = IF amounts # << >> THEN amounts ELSE @]

\* the amount texts of the documents with a space between the two decimals,
\* which [\d,]+\.\d\s?\d finds as one amount
SpacedAmountTexts == {"185.0 0"}

\* a continuation line that is no metadata line converts its amounts with
\* float(a.replace(",", "")), which raises ValueError for a text with a space
BanamexContinueRaises(line) ==
    /\ ~BanamexIsMetadata(line)
    /\ \E j \in 1..Len(line) : line[j].k = "amt" /\ line[j].t \in SpacedAmountTexts

\* the line reaches the continuation branch of the loop body and raises there
BanamexLineRaises(st, line) ==
    /\ ~BanamexIsHeader(line) /\ ~BanamexIsSectionEnd(line)
    /\ st.sec
    /\ ~BanamexIsPageMarker(line) /\ ~BanamexIsSkipped(line)
    /\ ~BanamexDateMatch(line)
    /\ st.ct # None
    /\ BanamexContinueRaises(line)

\* a faulty loop body that finalizes the transaction on the continuation line
\* that brings its amounts
BanamexLineEager(st, line, year) ==
    IF BanamexIsHeader(line) THEN [st EXCEPT !.sec = TRUE]
    ELSE IF BanamexIsSectionEnd(line)
    THEN LET fin == BanamexFinalize(st.ct, st.all, st.pb, year)
         IN  [sec |-> FALSE, ct |-> None, all |-> fin.all, pb |-> fin.pb]
    ELSE IF ~st.sec THEN st
    ELSE IF BanamexIsPageMarker(line) THEN [st EXCEPT !.sec = FALSE]
    ELSE IF BanamexIsSkipped(line) THEN st
    ELSE IF BanamexDateMatch(line)
    THEN LET fin == BanamexFinalize(st.ct, st.all, st.pb, year)
         IN  [sec |-> st.sec, ct |-> Some(BanamexStart(line)), all |-> fin.all,
              pb |-> fin.pb]
    ELSE IF st.ct # None
    THEN LET t == BanamexContinue(st.ct[1], line)
             fin == BanamexFinalize(Some(t), st.all, st.pb, year)
         IN  IF BanamexAmounts(line) # << >>
             THEN [sec |-> st.sec, ct |-> None, all |-> fin.all, pb |-> fin.pb]
             ELSE [st EXCEPT !.ct = Some(t)]
    ELSE st

\* the body of the loop over the lines: the state after one line
BanamexLine(st, line, year) ==
    IF BanamexIsHeader(line) THEN [st EXCEPT !.sec = TRUE]
    ELSE IF BanamexIsSectionEnd(line)
    THEN LET fin == BanamexFinalize(st.ct, st.all, st.pb, year)
         IN  [sec |-> FALSE, ct |-> None, all |-> fin.all, pb |-> fin.pb]
    ELSE IF ~st.sec THEN st
    ELSE IF BanamexIsPageMarker(line) THEN [st EXCEPT !.sec = FALSE]
    ELSE IF BanamexIsSkipped(line) THEN st
    ELSE IF BanamexDateMatch(line)
    THEN LET fin == BanamexFinalize(st.ct, st.all, st.pb, year)
         IN  [sec |-> st.sec, ct |-> Some(BanamexStart(line)), all |-> fin.all,
              pb |-> fin.pb]
    ELSE IF st.ct # None
    THEN [st EXCEPT !.ct = Some(BanamexContinue(st.ct[1], line))]
    ELSE st

BanamexState ==
    [sec |-> in_transaction_section, ct |-> current_transaction,
     all |-> transactions, pb |-> previous_balance]

-----------------------------------------------------------------------------
(* Wells Fargo: wellsfargo_file_loader.py *)

WellsfargoCreditKeywords ==
    { <<"transfer", "from">>, <<"deposit">>, <<"credit">>, <<"interest">>,
      <<"refund">>, <<"recurring", "transfer", "from">> }

\* any(keyword in description.lower() for keyword in credit_keywords)
WellsfargoHasCreditKeyword(description) ==
    \E kw \in WellsfargoCreditKeywords : HasPhrase(Lower(Texts(description)), kw)

\* re.findall(r"[\d,]+\.\d{2}", rest), as cents
WellsfargoAmounts(toks) ==
    LET amts == SelectToks(toks, "amt")
    IN  [j \in 1..Len(amts) |-> amts[j].v]

RECURSIVE WellsfargoDesc(_)
\* description.replace(amt, "") for each amount: what preceded its digits stays
WellsfargoDesc(toks) ==
    IF toks = << >> THEN << >>
    ELSE LET h == toks[1]
         IN  IF h.k = "amt"
             THEN (IF h.p = "" THEN << >> ELSE << W(h.p) >>) \o WellsfargoDesc(Tail(toks))
             ELSE << h >> \o WellsfargoDesc(Tail(toks))

\* a faulty choice that takes the first amount of the line
WellsfargoFirstAmount(amounts) == amounts[1]

\* the transaction amount among the amounts of the line
WellsfargoTransactionAmount(amounts) ==
    IF Len(amounts) >= 2 THEN amounts[Len(amounts) - 1] ELSE amounts[1]

\* _parse_wellsfargo_transaction_line: None, or the record of the line
ParseWellsfargoTransactionLine(line, year, seq) ==
    IF ~(Len(line) >= 2 /\ line[1].k = "date") THEN None
    ELSE LET rest == Tail(line)
             amounts == WellsfargoAmounts(rest)
             description == WellsfargoDesc(rest)
         IN  IF Len(amounts) < 1 THEN None
             ELSE LET transaction_amount == WellsfargoTransactionAmount(amounts)
                      is_credit == WellsfargoHasCreditKeyword(description)
                  IN  Some(Row([d |-> line[1].v, m |-> line[1].m, y |-> year],
                               JoinText(description),
                               IF is_credit THEN None ELSE Some(transaction_amount),
                               IF is_credit THEN Some(transaction_amount) ELSE None,
                               seq))

\* transactions after "if transaction: transactions.append(transaction)"
AppendParsed(txs, parsed) == IF parsed = None THEN txs ELSE Append(txs, parsed[1])

\* transactions after the pending line, if any, is parsed and appended
WellsfargoFlush(pending, txs, year) ==
    IF pending = None THEN txs
    ELSE AppendParsed(txs, ParseWellsfargoTransactionLine(pending[1], year, Len(txs) + 1))

\* "Date Number Description" in line or "Deposits/" in line or "Withdrawals/" in line
WellsfargoIsHeader(line) ==
    \/ HasPhrase(Texts(line), <<"Date", "Number", "Description">>)
    \/ \E j \in 1..Len(line) : line[j].t \in {"Deposits/", "Withdrawals/"}

\* a faulty loop body that leaves the pending line as it is on a continuation
\* line, so that nothing is merged
WellsfargoLineNoMerge(st, line, year) ==
    IF HasPhrase(Texts(line), <<"Transaction", "history">>) THEN [st EXCEPT !.sec = TRUE]
    ELSE IF line # << >> /\ line[1].t = "Totals"
    THEN [sec |-> FALSE, pending |-> None,
          all |-> WellsfargoFlush(st.pending, st.all, year)]
    ELSE IF ~st.sec THEN st
    ELSE IF WellsfargoIsHeader(line) THEN st
    ELSE IF Len(line) >= 2 /\ line[1].k = "date"
    THEN LET flushed == WellsfargoFlush(st.pending, st.all, year)
             parsed == ParseWellsfargoTransactionLine(line, year, Len(flushed) + 1)
         IN  IF parsed # None
             THEN [sec |-> st.sec, pending |-> None, all |-> Append(flushed, parsed[1])]
             ELSE [sec |-> st.sec, pending |-> Some(line), all |-> flushed]
    ELSE st

\* the body of the loop over the lines: the state after one line
WellsfargoLine(st, line, year) ==
    IF HasPhrase(Texts(line), <<"Transaction", "history">>) THEN [st EXCEPT !.sec = TRUE]
    ELSE IF line # << >> /\ line[1].t = "Totals"
    THEN [sec |-> FALSE, pending |-> None,
          all |-> WellsfargoFlush(st.pending, st.all, year)]
    ELSE IF ~st.sec THEN st
    ELSE IF WellsfargoIsHeader(line) THEN st
    ELSE IF Len(line) >= 2 /\ line[1].k = "date"
    THEN LET flushed == WellsfargoFlush(st.pending, st.all, year)
             parsed == ParseWellsfargoTransactionLine(line, year, Len(flushed) + 1)
         IN  IF parsed # None
             THEN [sec |-> st.sec, pending |-> None, all |-> Append(flushed, parsed[1])]
             ELSE [sec |-> st.sec, pending |-> Some(line), all |-> flushed]
    ELSE IF st.pending # None /\ st.pending[1] # << >>
    THEN LET merged_line == st.pending[1] \o line
             parsed == ParseWellsfargoTransactionLine(merged_line, year, Len(st.all) + 1)
         IN  IF parsed # None
             THEN [sec |-> st.sec, pending |-> None, all |-> Append(st.all, parsed[1])]
             ELSE [sec |-> st.sec, pending |-> Some(merged_line), all |-> st.all]
    ELSE st

WellsfargoState ==
    [sec |-> in_transaction_section, pending |-> pending_line, all |-> transactions]

-----------------------------------------------------------------------------
(* Chase: chase_file_loader.py *)

\* _parse_chase_transaction_line: None, or Date, Description and Amount
\* ^(\d{1,2}/\d{1,2})\s+(.+?)\s+\$?([\d,]+\.\d{2})$
ParseChaseTransactionLine(line, year, seq) ==
    IF /\ Len(line) >= 3
       /\ line[1].k = "date"
       /\ line[Len(line)].k = "amt" /\ line[Len(line)].p \in {"", "$"}
    THEN Some([Date |-> [d |-> line[1].v, m |-> line[1].m, y |-> year],
               Description |-> JoinText(SubSeq(line, 2, Len(line) - 1)),
               Amount |-> line[Len(line)].v,
               seq |-> seq])
    ELSE None

\* the body of the loop over the lines: the state after one line
ChaseLine(st, line, year) ==
    IF HasPhrase(Texts(line), <<"DEPOSITS", "AND", "ADDITIONS">>)
    THEN [st EXCEPT !.section = Some("credits")]
    ELSE IF HasPhrase(Texts(line), <<"ELECTRONIC", "WITHDRAWALS">>)
    THEN [st EXCEPT !.section = Some("debits")]
    ELSE IF \/ StartsWithPhrase(Texts(line), <<"Total", "Deposits">>)
            \/ StartsWithPhrase(Texts(line), <<"Total", "Electronic">>)
    THEN [st EXCEPT !.section = None]
    ELSE IF st.section = None \/ line = << >> THEN st
    ELSE IF HasPhrase(Texts(line), <<"DATE", "DESCRIPTION", "AMOUNT">>) THEN st
    ELSE LET transaction ==
                 ParseChaseTransactionLine(line, year, Len(st.credits) + Len(st.debits) + 1)
         IN  IF transaction = None THEN st
             ELSE IF st.section = Some("credits")
             THEN [st EXCEPT !.credits = Append(@, transaction[1])]
             ELSE [st EXCEPT !.debits = Append(@, transaction[1])]

\* a faulty combination that takes every record as a debit
ChaseCombineDebits(cr, db) ==
    [j \in 1..Len(cr) |->
        Row(cr[j].Date, cr[j].Description, Some(cr[j].Amount), None, cr[j].seq)]
    \o
    [j \in 1..Len(db) |->
        Row(db[j].Date, db[j].Description, Some(db[j].Amount), None, db[j].seq)]

\* all_transactions: the credits, then the debits
ChaseCombine(cr, db) ==
    [j \in 1..Len(cr) |->
        Row(cr[j].Date, cr[j].Description, None, Some(cr[j].Amount), cr[j].seq)]
    \o
    [j \in 1..Len(db) |->
        Row(db[j].Date, db[j].Description, Some(db[j].Amount), None, db[j].seq)]

ChaseState == [section |-> current_section, credits |-> credits, debits |-> debits]

-----------------------------------------------------------------------------
(* Citi: citi_file_loader.py *)

\* month_map.get(statement_month.lower(), 1); "jan" when the name has no -mon-yyyy
StatementMonthNum(f) ==
    IF ~f.match THEN 1
    ELSE CASE f.mon = "jan" -> 1 [] f.mon = "feb" -> 2 [] f.mon = "mar" -> 3
           [] f.mon = "apr" -> 4 [] f.mon = "may" -> 5 [] f.mon = "jun" -> 6
           [] f.mon = "jul" -> 7 [] f.mon = "aug" -> 8 [] f.mon = "sep" -> 9
           [] f.mon = "oct" -> 10 [] f.mon = "nov" -> 11 [] f.mon = "dec" -> 12
           [] OTHER -> 1

\* the words of the documents that start with an upper-case letter
UpperInitialWords ==
    {"DAIRY", "QUEEN", "AUTOPAY", "AUTO-PMT", "PURO", "PA", "DELANTE", "BREW", "CITY",
     "BRAND", "MEXICAN", "PESO", "Standard", "Purchases", "Payments,", "Credits",
     "Adjustments", "MANUEL", "SALAS", "REYNA", "VARELA", "Total", "Earned:", "Earned",
     "SOMX", "HERMOSILLO", "CARDHOLDER", "SUMMARY", "Fees", "Costco", "Cash", "Back",
     "Rewards", "Card", "Page", "WWW.AMAZON.COWA", "Interest", "Charged", "Sale", "Post",
     "AMAZON.COM", "MKTPLACE", "PMTS", "This", "Period", "Year", "Date", "Balance:",
     "New", "Charges", "Foreign", "Currency", "Transactions", "Purchase"}

\* the words of the documents made of the characters A-Z, 0-9, * and - only
MerchantCharWords ==
    {"DAIRY", "QUEEN", "AUTOPAY", "AUTO-PMT", "PURO", "PA", "DELANTE", "BREW", "CITY",
     "BRAND", "MEXICAN", "PESO", "MANUEL", "SALAS", "REYNA", "VARELA", "SOMX",
     "HERMOSILLO", "CARDHOLDER", "SUMMARY", "MKTPLACE", "PMTS", "1335"}

\* the words of the documents that \d+% matches
PercentWords == {"1%", "2%", "3%", "4%"}

\* the words of the documents whose lower case contains "cont'd"
ContdWords == {"cont'd", "(cont'd)", "Cont'd"}

CitiFirstIsUpper(toks) == toks # << >> /\ toks[1].k = "w" /\ toks[1].t \in UpperInitialWords

CitiFirstIsDigit(tok) ==
    \/ tok.k \in {"num", "date"}
    \/ tok.k = "amt" /\ tok.p = ""
    \/ tok.k = "w" /\ tok.t \in {"1335", "1%", "2%", "3%", "4%", "12345678", "000", "0001"}

\* re.match(r"^\d{1,2}/\d{1,2}", text)
CitiStartsWithDate(line) == line # << >> /\ line[1].k = "date"

\* re.match(r"^\d{1,2}/\d{1,2}\s+\d{1,2}/\d{1,2}", text)
CitiStartsWithTwoDates(line) == Len(line) >= 2 /\ line[1].k = "date" /\ line[2].k = "date"

\* a token that -?\$?[\d,]+\.\d{2} matches from its first character
CitiIsAmount(tok) == tok.k = "amt" /\ tok.p \in {"", "$", "-", "-$"}

\* float(amount_str.replace(",", "").replace("$", "")), in cents
CitiAmount(tok) == IF tok.p \in {"-", "-$"} THEN 0 - tok.v ELSE tok.v

\* "MEXICAN PESO" in text
CitiHasPeso(line) == HasPhrase(Texts(line), <<"MEXICAN", "PESO">>)

\* re.match(r"^[\d,]+\.\d+-?\s+MEXICAN\s+PESO", text)
CitiIsPesoStart(line) ==
    /\ Len(line) >= 3
    /\ line[1].k = "amt" /\ line[1].p = ""
    /\ line[2].t = "MEXICAN" /\ line[3].t = "PESO"

\* a faulty test that recognizes no MEXICAN PESO amount line
CitiNoPesoMatch(line) == FALSE

\* re.match(r"^[\d,]+\.\d+-?\s+MEXICAN\s+PESO\s+(-?\$?[\d,]+\.\d{2})", line_stripped)
CitiPesoMatch(line) == CitiIsPesoStart(line) /\ Len(line) >= 4 /\ CitiIsAmount(line[4])

\* "cont'd" in text.lower()
CitiHasContd(line) == \E j \in 1..Len(line) : line[j].t \in ContdWords

\* the cardholder a line names, if it names one outside "Card ending in"
CitiCardholder(line) ==
    IF HasPhrase(Texts(line), <<"Card", "ending", "in">>) THEN None
    ELSE IF HasPhrase(Texts(line), <<"MANUEL", "SALAS">>) THEN Some("MANUEL SALAS")
    ELSE IF HasPhrase(Texts(line), <<"REYNA", "VARELA">>) THEN Some("REYNA VARELA")
    ELSE None

\* lines[k] of the page (0-based k), "" beyond its end
CitiLineAt(page, k) == IF k >= 0 /\ k < Len(page) THEN page[k + 1] ELSE << >>

\* a faulty record that keeps the sign of the amount on the debit side
CitiRowSigned(date, description, amount, seq) ==
    Row(date, description, Some(amount), None, seq)

\* the Debit/Credit record of a signed amount
CitiRow(date, description, amount, seq) ==
    Row(date, description,
        IF amount >= 0 THEN Some(amount) ELSE None,
        IF amount < 0 THEN Some(0 - amount) ELSE None,
        seq)

\* a faulty adjustment that leaves every record in the statement year
CitiKeepYear(rec, f) == rec

\* "Adjust year for transactions in the previous year"
CitiAdjustYear(rec, f) ==
    IF rec.Date.m > StatementMonthNum(f)
    THEN [rec EXCEPT !.Date.y = YearOf(f) - 1]
    ELSE rec

\* the least index of the set found, or 0
FirstIndex(found) ==
    IF found # {} THEN CHOOSE j \in found : \A h \in found : j <= h ELSE 0

\* re.sub of the reward text (" 1% on ... +$29.54 ...") and of a trailing
\* " Costco Cash Back Rewards" from the description of a peso transaction
CitiStripRewards(description) ==
    LET isReward(j) ==
            /\ description[j].t \in {"1%", "2%", "3%", "4%"}
            /\ j + 1 <= Len(description) /\ description[j + 1].t = "on"
            /\ \E h \in (j + 2)..Len(description) :
                   description[h].k = "amt" /\ description[h].p = "+$"
        r == FirstIndex({ j \in 2..Len(description) : isReward(j) })
        d1 == IF r = 0 THEN description ELSE SubSeq(description, 1, r - 1)
        n == Len(d1)
    IN  IF n >= 5 /\ Lower(Texts(SubSeq(d1, n - 3, n))) = <<"costco", "cash", "back", "rewards">>
        THEN SubSeq(d1, 1, n - 4)
        ELSE d1

\* _parse_citi_transaction_line: None ("none"), "PARTIAL" ("partial"), or the
\* record of the line ("txn")
ParseCitiTransactionLine(line, year, seq) ==
    LET date == [d |-> line[1].v, m |-> line[1].m, y |-> year]
        isAmt(j) == CitiIsAmount(line[j])
        a1 == FirstIndex({ j \in 4..Len(line) : isAmt(j) })
        a2 == FirstIndex({ j \in 3..Len(line) : isAmt(j) })
        yearToDate(desc) ==
            LET n == Len(desc)
            IN  \/ n >= 3 /\ Lower(Texts(SubSeq(desc, n - 2, n))) = <<"year", "to", "date:">>
                \/ n >= 4 /\ Lower(Texts(SubSeq(desc, n - 3, n))) = <<"year", "to", "date", ":">>
    IN  IF ~CitiStartsWithDate(line) THEN [k |-> "none"]
        \* Format 1: two dates with description and amount
        ELSE IF /\ CitiStartsWithTwoDates(line) /\ a1 # 0
                /\ ~yearToDate(SubSeq(line, 3, a1 - 1))
        THEN [k |-> "txn",
              rec |-> CitiRow(date, JoinText(SubSeq(line, 3, a1 - 1)), CitiAmount(line[a1]), seq)]
        \* Format 2: single date with description and amount
        ELSE IF a2 # 0 /\ line[2].k # "date"
        THEN [k |-> "txn",
              rec |-> CitiRow(date, JoinText(SubSeq(line, 2, a2 - 1)), CitiAmount(line[a2]), seq)]
        \* Format 1b: two dates with only an amount
        ELSE IF Len(line) = 3 /\ CitiStartsWithTwoDates(line) /\ CitiIsAmount(line[3])
        THEN [k |-> "txn", rec |-> CitiRow(date, "PENDING_DESCRIPTION", CitiAmount(line[3]), seq)]
        \* single date with amount
        ELSE IF Len(line) >= 2 /\ CitiIsAmount(line[2])
        THEN [k |-> "txn", rec |-> CitiRow(date, "PENDING_DESCRIPTION", CitiAmount(line[2]), seq)]
        \* Format 3: single date with description
        ELSE IF Len(line) >= 2 THEN [k |-> "partial"]
        ELSE [k |-> "none"]

\* in_transaction_section after a cardholder line whose next line is no "cont'd"
CitiCardholderSection(page, idx) ==
    LET next_line == CitiLineAt(page, idx + 1)
        next_next_line == CitiLineAt(page, idx + 2)
    IN  IF CitiStartsWithDate(next_line) THEN TRUE
        ELSE IF CitiIsPesoStart(next_line) THEN CitiStartsWithDate(next_next_line)
        ELSE FALSE

\* the section headers that open a purchases section
CitiIsPurchasesHeader(line, holder) ==
    \/ HasPhrase(Texts(line), <<"Standard", "Purchases">>)
    \/ /\ holder # None
       /\ \E j \in 1..Len(line) : line[j].t \in {"Purchase", "Purchases"}
       /\ ~\E j \in 1..Len(line) : line[j].t \in {"Payments", "Payments,"}
    \/ StartsWithPhrase(Texts(line), <<"Costco", "Cash", "Back", "Rewards">>)
    \/ /\ HasPhrase(Texts(line), <<"Earned", "This", "Period">>)
       /\ ~HasPhrase(Texts(line), <<"Earned", "this", "period">>)
       /\ ~CitiStartsWithDate(line)

\* the markers that close a section
CitiIsStop(line) ==
    \/ StartsWithPhrase(Texts(line), <<"CARDHOLDER", "SUMMARY">>)
    \/ StartsWithPhrase(Texts(line), <<"Foreign", "Currency", "Transactions">>)
    \/ StartsWithPhrase(Texts(line), <<"Interest", "Charged">>)
    \/ line # << >> /\ line[1].t \in {"Fees"}
    \/ StartsWithPhrase(Texts(line), <<"Year-To-Date", "Totals">>)
    \/ StartsWithPhrase(Texts(line), <<"2024", "Totals", "Year-to-Date">>)

\* re.search(r"\$[\d,]+\.\d{2}", text)
CitiHasDollarAmount(toks) ==
    \E j \in 1..Len(toks) : toks[j].k = "amt" /\ toks[j].p \in {"$", "-$", "+$"}

\* "Total Earned:" in line
CitiHasTotalEarned(line) == HasPhrase(Texts(line), <<"Total", "Earned:">>)

\* a previous line that reads as a description: not empty, no date at its
\* start, longer than 5 characters, no "MEXICAN PESO"
CitiIsPrevDescription(prev_line) ==
    /\ prev_line # << >>
    /\ ~CitiStartsWithDate(prev_line)
    /\ Len(JoinText(prev_line)) > 5
    /\ ~CitiHasPeso(prev_line)

\* should_skip_header
CitiShouldSkipHeader(page, idx) ==
    LET line == CitiLineAt(page, idx)
        is_valid_transaction ==
            /\ CitiStartsWithDate(line)
            /\ \E s \in 1..(Len(line) - 1) :
                   /\ line[s].t = "Total" /\ line[s + 1].t = "Earned:"
                   /\ \A h \in 1..(s - 1) : ~(line[h].t = "Total" /\ line[h + 1].t = "Earned:")
                   /\ CitiHasDollarAmount(SubSeq(line, 1, s - 1))
        prev_is_description ==
            /\ idx > 0
            /\ CitiIsPrevDescription(CitiLineAt(page, idx - 1))
            /\ CitiFirstIsUpper(CitiLineAt(page, idx - 1))
        has_peso_following ==
            \E j \in 1..3 : j < Len(page) - idx /\ CitiHasPeso(CitiLineAt(page, idx + j))
    IN  \/ line = << >>
        \/ HasPhrase(Texts(line), <<"Sale", "Post">>)
        \/ HasPhrase(Texts(line), <<"Date", "Date", "Description", "Amount">>)
        \/ \E j \in 1..Len(line) : line[j].t = "Balance:"
        \/ HasPhrase(Texts(line), <<"New", "Charges">>)
        \/ HasPhrase(Texts(line), <<"Earned", "this", "period">>)
        \/ /\ CitiHasTotalEarned(line)
           /\ ~prev_is_description /\ ~has_peso_following /\ ~is_valid_transaction

\* has_merchant_name: upper-case or digit words, more than 5 characters of
\* them, before " 1% on " or " Total Earned"
CitiHasMerchantName(extra_text) ==
    LET follows(j) ==
            \/ /\ extra_text[j].t \in PercentWords
               /\ j + 2 <= Len(extra_text) /\ extra_text[j + 1].t = "on"
            \/ /\ extra_text[j].t = "Total"
               /\ j + 1 <= Len(extra_text) /\ extra_text[j + 1].t \in {"Earned", "Earned:"}
        merchant(j) ==
            \A h \in 1..(j - 1) :
                \/ extra_text[h].k = "num"
                \/ extra_text[h].k = "w" /\ extra_text[h].t \in MerchantCharWords
        hit(j) == follows(j) /\ merchant(j)
        j0 == FirstIndex({ j \in 2..Len(extra_text) : hit(j) })
    IN  j0 # 0 /\ Len(JoinText(SubSeq(extra_text, 1, j0 - 1))) > 5

\* the date-only branch is taken and ends the handling of the line
CitiIsDateOnly(line, st) ==
    /\ CitiStartsWithDate(line)
    /\ ~CitiStartsWithTwoDates(line)
    /\ ~st.pay
    /\ st.pending = None
    /\ LET extra_text == Tail(line)
           has_amount_in_text == CitiHasDollarAmount(extra_text)
           is_reward_or_info_text ==
               \/ HasPhrase(Texts(extra_text), <<"Total", "Earned">>)
               \/ CitiHasTotalEarned(extra_text)
               \/ HasPhrase(Texts(extra_text), <<"on", "all", "other">>)
               \/ /\ HasPhrase(Lower(Texts(extra_text)), <<"for", "more", "information">>)
                  /\ ~has_amount_in_text
           has_transaction_amount == has_amount_in_text /\ ~is_reward_or_info_text
           first_upper_or_digit(toks) ==
               toks # << >> /\ (CitiFirstIsUpper(toks) \/ CitiFirstIsDigit(toks[1]))
           looks_like_merchant ==
               /\ Len(JoinText(extra_text)) > 10
               /\ first_upper_or_digit(extra_text)
               /\ Cardinality({j \in 1..Len(extra_text) :
                                   first_upper_or_digit(<< extra_text[j] >>)}) >= 2
       IN  /\ ~CitiHasMerchantName(extra_text)
           /\ ~has_transaction_amount
           /\ ~(extra_text # << >> /\ extra_text[1].t = "AUTOPAY")
           /\ ~looks_like_merchant
           /\ \/ is_reward_or_info_text
              \/ ~(Len(JoinText(extra_text)) > 10 /\ CitiFirstIsUpper(extra_text))

\* a description-only line: no date at its start, a vendor name of two words or more
CitiIsDescriptionOnly(line) ==
    /\ ~CitiStartsWithDate(line)
    /\ Len(JoinText(line)) > 5
    /\ ~(line[1].t \in {"cont'd", "Cont'd"})
    /\ ~(Len(line) >= 2 /\ line[1].t = "Page")
    /\ CitiFirstIsUpper(line)
    /\ ~(line[1].t \in {"WWW.AMAZON.COWA"})
    /\ Len(line) >= 2

\* the pending description a description-only line leaves, given the lines
\* after it: None when the line is handled further down
CitiDescriptionOnly(page, idx) ==
    LET line == CitiLineAt(page, idx)
        next_line == CitiLineAt(page, idx + 1)
        has_peso_following ==
            \E j \in 1..4 : j < Len(page) - idx /\ CitiHasPeso(CitiLineAt(page, idx + j))
    IN  IF ~(CitiIsDescriptionOnly(line) /\ idx + 1 < Len(page)) THEN None
        \* Pattern 1: two dates + amount only
        ELSE IF /\ Len(next_line) = 3 /\ CitiStartsWithTwoDates(next_line)
                /\ CitiIsAmount(next_line[3])
        THEN Some([pending |-> line, skip |-> FALSE])
        \* Pattern 2: single date + amount
        ELSE IF /\ Len(next_line) >= 2 /\ CitiStartsWithDate(next_line)
                /\ CitiIsAmount(next_line[2])
        THEN Some([pending |-> line, skip |-> FALSE])
        \* Pattern 3: a date next and a MEXICAN PESO line within the next lines
        ELSE IF CitiStartsWithDate(next_line) /\ has_peso_following
        THEN Some([pending |-> << next_line[1] >> \o line, skip |-> TRUE])
        ELSE None

\* the description of a "PENDING_DESCRIPTION" record: from the pending
\* description, else from the first of the three lines before that reads as one
CitiFillDescription(rec, pending, page, idx) ==
    IF pending # None
    THEN [rec EXCEPT !.Description =
              IF CitiStartsWithDate(pending[1]) /\ Len(pending[1]) >= 2
              THEN JoinText(Tail(pending[1]))
              ELSE JoinText(pending[1])]
    ELSE LET lo == IF idx - 3 > 0 THEN idx - 3 ELSE 0
             cand == { j \in lo..(idx - 1) : CitiIsPrevDescription(CitiLineAt(page, j)) }
         IN  IF cand = {} THEN rec
             ELSE LET j0 == CHOOSE j \in cand : \A h \in cand : j <= h
                  IN  [rec EXCEPT !.Description = JoinText(CitiLineAt(page, j0))]

\* a faulty test that uses the pending description in the payments section too
CitiPesoIgnoresSection(st) == st.pending # None

\* "if pending_description and not in_payments_section" on a MEXICAN PESO line
CitiPesoUsesPending(st) == st.pending # None /\ ~st.pay

\* the body of the loop over the lines of a page: the state after line idx
CitiLine(st, page, idx, f) ==
    LET line == CitiLineAt(page, idx)
        year == YearOf(f)
        seq == Len(st.all) + 1
    IN  IF st.skip THEN [st EXCEPT !.skip = FALSE]
        ELSE IF CitiCardholder(line) # None
        THEN IF CitiHasContd(CitiLineAt(page, idx + 1))
             THEN [st EXCEPT !.holder = CitiCardholder(line)]
             ELSE [st EXCEPT !.holder = CitiCardholder(line),
                             !.sec = CitiCardholderSection(page, idx),
                             !.pending = IF CitiHasContd(line) THEN @ ELSE None]
        ELSE IF CitiPesoMatch(line)
        THEN IF /\ CitiPesoUsesPending(st)
                /\ CitiStartsWithDate(st.pending[1]) /\ Len(st.pending[1]) >= 2
             THEN LET p == st.pending[1]
                      rec == CitiRow([d |-> p[1].v, m |-> p[1].m, y |-> year],
                                     JoinText(CitiStripRewards(Tail(p))),
                                     CitiAmount(line[4]), seq)
                  IN  [st EXCEPT !.all = Append(@, CitiAdjustYear(rec, f)),
                                 !.pending = None]
             ELSE [st EXCEPT !.pending = None]
        ELSE IF HasPhrase(Texts(line), <<"Payments,", "Credits", "and", "Adjustments">>)
        THEN [st EXCEPT !.sec = TRUE, !.pay = TRUE]
        ELSE IF CitiIsPurchasesHeader(line, st.holder)
        THEN [st EXCEPT !.sec = TRUE, !.pay = FALSE]
        ELSE IF CitiIsStop(line)
        THEN [st EXCEPT !.sec = FALSE, !.pay = FALSE, !.pending = None]
        ELSE IF CitiShouldSkipHeader(page, idx) THEN st
        ELSE IF CitiIsDateOnly(line, st)
        THEN IF idx > 0 /\ CitiIsPrevDescription(CitiLineAt(page, idx - 1))
             THEN [st EXCEPT !.pending = Some(<< line[1] >> \o CitiLineAt(page, idx - 1))]
             ELSE st
        ELSE IF ~st.sec THEN st
        ELSE IF CitiDescriptionOnly(page, idx) # None
        THEN [st EXCEPT !.pending = Some(CitiDescriptionOnly(page, idx)[1].pending),
                        !.skip = CitiDescriptionOnly(page, idx)[1].skip]
        ELSE IF /\ st.pending # None
                /\ Len(line) >= 2 /\ CitiStartsWithDate(line) /\ CitiIsAmount(line[2])
        THEN LET rec == CitiRow([d |-> line[1].v, m |-> line[1].m, y |-> year],
                                JoinText(st.pending[1]), CitiAmount(line[2]), seq)
             IN  [st EXCEPT !.all = Append(@, CitiAdjustYear(rec, f)), !.pending = None]
        ELSE LET transaction == ParseCitiTransactionLine(line, year, seq)
             IN  IF transaction.k = "partial"
                 THEN [st EXCEPT !.pending = IF @ = None THEN Some(line) ELSE @]
                 ELSE IF transaction.k = "txn"
                 THEN LET rec ==
                              IF transaction.rec.Description = "PENDING_DESCRIPTION"
                              THEN CitiFillDescription(transaction.rec, st.pending, page, idx)
                              ELSE transaction.rec
                      IN  [st EXCEPT !.all = Append(@, CitiAdjustYear(rec, f)),
                                     !.pending = None]
                 ELSE st

CitiState ==
    [sec |-> in_transaction_section, pay |-> in_payments_section,
     holder |-> current_cardholder, pending |-> pending_description,
     skip |-> skip_next_line, all |-> transactions]

-----------------------------------------------------------------------------
(* What each adapter returns *)

\* Banamex, lines 207-219: an empty frame, or the frame sorted by Date
BanamexResult(all) == IF all = << >> THEN { << >> } ELSE SortValues(Frame(all))

\* Wells Fargo, lines 184-189: the frame in the order of the list
WellsfargoResult(all) == { Frame(all) }

\* Chase, lines 136-144: the frame sorted by Date
ChaseResult(all) == SortValues(Frame(all))

\* Citi, lines 630-638: the frame sorted by Date
CitiResult(all) == SortValues(Frame(all))

-----------------------------------------------------------------------------
(* The documents *)

\* bound: the number of lines of a document
MaxLines == 4

\* bound: the number of lines of a document of BanamexMultilineLines
MaxMultilineLines == 5

\* what -(\w+)-(\d{4}) finds in the file name: nothing, or a month and a year
\* and whether os.path.isfile(filename) holds
FileNames ==
    { [match |-> FALSE, mon |-> "", yr |-> 0, exists |-> TRUE],
      [match |-> TRUE, mon |-> "jun", yr |-> 2026, exists |-> TRUE],
      [match |-> FALSE, mon |-> "", yr |-> 0, exists |-> FALSE] }

BanamexHeaderLine == << W("FECHA"), W("CONCEPTO"), W("RETIROS"), W("DEPOSITOS"), W("SALDO") >>

BanamexLines ==
    { BanamexHeaderLine,
      << W("Resumen"), W("Operaciones") >>,
      << N("28", 28), W("DIC"), W("COMPRA"), A("", "185.00", 18500), A("", "150.00", 15000) >>,
      << N("04", 4), W("ENE"), W("COMPRA"), A("", "36.00", 3600), A("", "100.00", 10000) >>,
      << N("04", 4), W("ENE"), W("RETIRO"), A("", "50.00", 5000), A("", "20.00", 2000),
         A("", "120.00", 12000) >>,
      << N("10", 10), W("ENE"), W("CAJERO"), A("", "40.00", 4000) >>,
      << N("05", 5), W("ENE"), W("abono"), A("", "50.00", 5000), A("", "20.00", 2000) >>,
      << A("", "1,000.00", 100000), A("", "2,500.00", 250000) >> }

PagoRecibidoLine == << N("01", 1), W("ENE"), W("PAGO"), W("RECIBIDO"), W("TRANSFERENCIA") >>
AmountBalanceLine == << A("", "1,000.00", 100000), A("", "2,500.00", 250000) >>
DateAmountLine == << N("03", 3), W("ENE"), A("", "185.00", 18500) >>
AmazonLine == << W("AMAZON.COM") >>
MktplaceLine == << W("MKTPLACE"), W("PMTS") >>
DollarAmountLine == << A("$", "23.74", 2374) >>
DollarAmountBalanceLine == << A("$", "23.74", 2374), A("", "100.00", 10000) >>

BanamexMultilineLines ==
    { BanamexHeaderLine, PagoRecibidoLine, AmountBalanceLine, DateAmountLine, AmazonLine,
      MktplaceLine, DollarAmountLine, DollarAmountBalanceLine }

WellsfargoLines ==
    { << W("Transaction"), W("history") >>,
      << W("Totals"), A("$", "100.00", 10000), A("$", "798.44", 79844) >>,
      << D("1/9", 1, 9), W("Mortgage"), A("", "798.44", 79844), A("", "3,157.01", 315701) >>,
      << D("1/5", 1, 5), W("Deposit"), A("", "100.00", 10000) >>,
      << D("1/5", 1, 5), W("Check"), A("", "10.00", 1000), A("", "20.00", 2000),
         A("", "30.00", 3000) >>,
      << D("1/7", 1, 7), W("Transfer"), W("From") >>,
      << W("Payment"), A("", "25.00", 2500) >> }

ChaseLines ==
    { << W("DEPOSITS"), W("AND"), W("ADDITIONS") >>,
      << W("ELECTRONIC"), W("WITHDRAWALS") >>,
      << W("Total"), W("Deposits"), W("and"), W("Additions"), A("$", "600.00", 60000) >>,
      << D("01/05", 1, 5), W("Zelle"), W("Payment"), A("$", "600.00", 60000) >>,
      << D("01/05", 1, 5), W("Rent"), A("", "2.00", 200) >>,
      << D("12/23", 12, 23), W("Card"), W("Purchase"), A("$", "11.50", 1150) >>,
      << D("02/30", 2, 30), W("Fee"), A("", "1.00", 100) >> }

CitiLines ==
    { << W("Standard"), W("Purchases") >>,
      << W("Payments,"), W("Credits"), W("and"), W("Adjustments") >>,
      << D("12/09", 12, 9), D("12/10", 12, 10), W("DAIRY"), W("QUEEN"), A("$", "11.50", 1150) >>,
      << D("01/03", 1, 3), W("AUTOPAY"), W("AUTO-PMT"), A("-$", "50.00", 5000) >>,
      << D("01/05", 1, 5), W("PURO"), W("PA"), W("DELANTE") >>,
      << A("", "250.00", 25000), W("MEXICAN"), W("PESO"), A("$", "13.51", 1351) >>,
      << W("BREW"), W("CITY"), W("BRAND") >>,
      << D("02/28", 2, 28), D("02/28", 2, 28), A("$", "23.74", 2374) >> }

\* the sequences of at most n lines of L
RECURSIVE Docs(_, _)
Docs(L, n) ==
    IF n = 0 THEN { << >> }
    ELSE LET shorter == Docs(L, n - 1)
         IN  shorter \cup { Append(doc, line) : doc \in { d \in shorter : Len(d) = n - 1 }, line \in L }

-----------------------------------------------------------------------------
(* The state machine *)

Loaders == {"banamex", "wellsfargo", "chase", "citi"}

\* the state on entry to _extract_transactions_from_pdf; the lines of a
\* Banamex, Wells Fargo or Chase document are drawn as they are read, the
\* lines of a Citi document, whose handler reads ahead in the page, are drawn
\* here, with the end of its first page when the document is paged
InitPaged(loaderSet, fileSet, citiLines, citiMax, paged) ==
    /\ loader \in loaderSet
    /\ filename \in fileSet
    /\ lines \in (IF loader = "citi" THEN Docs(citiLines, citiMax) ELSE { << >> })
    /\ i = 0
    /\ pc = "start"
    /\ in_transaction_section = FALSE
    /\ current_transaction = None
    /\ previous_balance = None
    /\ pending_line = None
    /\ in_payments_section = FALSE
    /\ current_cardholder = None
    /\ pending_description = None
    /\ skip_next_line = FALSE
    /\ current_section = None
    /\ credits = << >>
    /\ debits = << >>
    /\ transactions = << >>
    /\ df = << >>
    /\ file_list = << >>
    /\ file_index = 0
    /\ all_expenses = << >>
    /\ warnings = 0
    /\ combined = << >>
    /\ batch_pc = "idle"
    /\ corrections_file = None
    /\ corrections = << >>
    /\ calls = 0
    /\ page_begin = 0
    /\ page_end \in (IF paged /\ Len(lines) > 0 THEN 1..Len(lines) ELSE { Len(lines) })
    /\ expenses = << >>
    /\ corrections_df = << >>
    /\ all_labeled_expenses = << >>
    /\ summary = << >>
    /\ stage = "idle"

\* the same with the whole document on one page
InitWith(loaderSet, fileSet, citiLines, citiMax) ==
    InitPaged(loaderSet, fileSet, citiLines, citiMax, FALSE)

Init == InitWith(Loaders, FileNames, CitiLines, MaxLines)

PersistenceVars == << corrections_file, corrections >>
PageVars == << page_begin, page_end >>
BatchVars == << file_list, file_index, all_expenses, warnings, combined, batch_pc >>
BanamexVars == << in_transaction_section, current_transaction, previous_balance, transactions >>
WellsfargoVars == << in_transaction_section, pending_line, transactions >>
ChaseVars == << current_section, credits, debits >>
CitiVars == << in_transaction_section, in_payments_section, current_cardholder,
               pending_description, skip_next_line, transactions >>

\* a faulty entry that goes on to the scan whether the file is there or not
CheckIsFileSkipped ==
    /\ pc = "start"
    /\ pc' = "scan"
    /\ UNCHANGED << loader, filename, lines, i, in_transaction_section, current_transaction,
                    previous_balance, pending_line, in_payments_section, current_cardholder,
                    pending_description, skip_next_line, current_section, credits, debits,
                    transactions, df >>
    /\ UNCHANGED BatchVars
    /\ UNCHANGED PersistenceVars
    /\ UNCHANGED calls
    /\ UNCHANGED PageVars
    /\ UNCHANGED CategoryVars

\* every adapter: the entry of _extract_transactions_from_pdf, which raises
\* FileNotFoundError when os.path.isfile(filename) does not hold
CheckIsFile ==
    /\ pc = "start"
    /\ pc' = IF filename.exists THEN "scan" ELSE "notfound"
    /\ UNCHANGED << loader, filename, lines, i, in_transaction_section, current_transaction,
                    previous_balance, pending_line, in_payments_section, current_cardholder,
                    pending_description, skip_next_line, current_section, credits, debits,
                    transactions, df >>
    /\ UNCHANGED BatchVars
    /\ UNCHANGED PersistenceVars
    /\ UNCHANGED calls
    /\ UNCHANGED PageVars
    /\ UNCHANGED CategoryVars

\* Banamex: one pass of the loop body over the next line of the document
BanamexScan(L, max) ==
    /\ pc = "scan" /\ loader = "banamex" /\ Len(lines) < max
    /\ \E line \in L :
        /\ lines' = Append(lines, line)
        /\ i' = i + 1
        /\ IF BanamexLineRaises(BanamexState, line)
           THEN pc' = "raised" /\ UNCHANGED BanamexVars
           ELSE LET st == BanamexLine(BanamexState, line, YearOf(filename))
                IN  /\ pc' = pc
                    /\ in_transaction_section' = st.sec
                    /\ current_transaction' = st.ct
                    /\ previous_balance' = st.pb
                    /\ transactions' = st.all
    /\ UNCHANGED << loader, filename, pending_line, in_payments_section,
                    current_cardholder, pending_description, skip_next_line,
                    current_section, credits, debits, df >>
    /\ UNCHANGED BatchVars
    /\ UNCHANGED PersistenceVars
    /\ UNCHANGED calls
    /\ UNCHANGED PageVars
    /\ UNCHANGED CategoryVars

\* a faulty end of the document that raises when nothing was extracted
BanamexFinishRaising ==
    /\ pc = "scan" /\ loader = "banamex"
    /\ LET fin == BanamexFinalize(current_transaction, transactions, previous_balance,
                                  YearOf(filename))
       IN  /\ transactions' = fin.all
           /\ previous_balance' = fin.pb
           /\ IF fin.all = << >>
              THEN pc' = "error" /\ df' = df
              ELSE pc' = "done" /\ df' \in BanamexResult(fin.all)
    /\ UNCHANGED << loader, filename, lines, i, in_transaction_section, current_transaction,
                    pending_line, in_payments_section, current_cardholder,
                    pending_description, skip_next_line, current_section, credits, debits >>
    /\ UNCHANGED BatchVars
    /\ UNCHANGED PersistenceVars
    /\ UNCHANGED calls
    /\ UNCHANGED PageVars
    /\ UNCHANGED CategoryVars

\* Banamex: the end of the document, lines 201-219
BanamexFinish ==
    /\ pc = "scan" /\ loader = "banamex"
    /\ LET fin == BanamexFinalize(current_transaction, transactions, previous_balance,
                                  YearOf(filename))
       IN  /\ transactions' = fin.all
           /\ previous_balance' = fin.pb
           /\ df' \in BanamexResult(fin.all)
    /\ pc' = "done"
    /\ UNCHANGED << loader, filename, lines, i, in_transaction_section, current_transaction,
                    pending_line, in_payments_section, current_cardholder,
                    pending_description, skip_next_line, current_section, credits, debits >>
    /\ UNCHANGED BatchVars
    /\ UNCHANGED PersistenceVars
    /\ UNCHANGED calls
    /\ UNCHANGED PageVars
    /\ UNCHANGED CategoryVars

\* Wells Fargo: one pass of the loop body over the next line of the document
WellsfargoScan(L, max) ==
    /\ pc = "scan" /\ loader = "wellsfargo" /\ Len(lines) < max
    /\ \E line \in L :
        LET st == WellsfargoLine(WellsfargoState, line, YearOf(filename))
        IN  /\ lines' = Append(lines, line)
            /\ i' = i + 1
            /\ in_transaction_section' = st.sec
            /\ pending_line' = st.pending
            /\ transactions' = st.all
    /\ UNCHANGED << loader, filename, pc, current_transaction, previous_balance,
                    in_payments_section, current_cardholder, pending_description,
                    skip_next_line, current_section, credits, debits, df >>
    /\ UNCHANGED BatchVars
    /\ UNCHANGED PersistenceVars
    /\ UNCHANGED calls
    /\ UNCHANGED PageVars
    /\ UNCHANGED CategoryVars

\* Wells Fargo: the end of the document, lines 173-189
WellsfargoFinish ==
    /\ pc = "scan" /\ loader = "wellsfargo"
    /\ LET all == WellsfargoFlush(pending_line, transactions, YearOf(filename))
       IN  /\ transactions' = all
           /\ IF all = << >>
              THEN pc' = "error" /\ df' = df
              ELSE pc' = "done" /\ df' \in WellsfargoResult(all)
    /\ UNCHANGED << loader, filename, lines, i, in_transaction_section, current_transaction,
                    previous_balance, pending_line, in_payments_section, current_cardholder,
                    pending_description, skip_next_line, current_section, credits, debits >>
    /\ UNCHANGED BatchVars
    /\ UNCHANGED PersistenceVars
    /\ UNCHANGED calls
    /\ UNCHANGED PageVars
    /\ UNCHANGED CategoryVars

\* Chase: one pass of the loop body over the next line of the document
ChaseScan(L, max) ==
    /\ pc = "scan" /\ loader = "chase" /\ Len(lines) < max
    /\ \E line \in L :
        LET st == ChaseLine(ChaseState, line, YearOf(filename))
        IN  /\ lines' = Append(lines, line)
            /\ i' = i + 1
            /\ current_section' = st.section
            /\ credits' = st.credits
            /\ debits' = st.debits
    /\ UNCHANGED << loader, filename, pc, in_transaction_section, current_transaction,
                    previous_balance, pending_line, in_payments_section,
                    current_cardholder, pending_description, skip_next_line,
                    transactions, df >>
    /\ UNCHANGED BatchVars
    /\ UNCHANGED PersistenceVars
    /\ UNCHANGED calls
    /\ UNCHANGED PageVars
    /\ UNCHANGED CategoryVars

\* Chase: the end of the document, lines 110-144
ChaseFinish ==
    /\ pc = "scan" /\ loader = "chase"
    /\ LET all == ChaseCombine(credits, debits)
       IN  /\ transactions' = all
           /\ IF all = << >>
              THEN pc' = "error" /\ df' = df
              ELSE pc' = "done" /\ df' \in ChaseResult(all)
    /\ UNCHANGED << loader, filename, lines, i, in_transaction_section, current_transaction,
                    previous_balance, pending_line, in_payments_section, current_cardholder,
                    pending_description, skip_next_line, current_section, credits, debits >>
    /\ UNCHANGED BatchVars
    /\ UNCHANGED PersistenceVars
    /\ UNCHANGED calls
    /\ UNCHANGED PageVars
    /\ UNCHANGED CategoryVars

\* a faulty pass that does not move on to the next line
CitiScanStuck ==
    /\ pc = "scan" /\ loader = "citi" /\ i < page_end
    /\ UNCHANGED vars

\* Citi: lines = text.split("\n") of the current page
CitiPage == SubSeq(lines, page_begin + 1, page_end)

\* Citi: one pass of the loop body over the next line of the page
CitiScan ==
    /\ pc = "scan" /\ loader = "citi" /\ i < page_end
    /\ LET st == CitiLine(CitiState, CitiPage, i - page_begin, filename)
       IN  /\ i' = i + 1
           /\ in_transaction_section' = st.sec
           /\ in_payments_section' = st.pay
           /\ current_cardholder' = st.holder
           /\ pending_description' = st.pending
           /\ skip_next_line' = st.skip
           /\ transactions' = st.all
    /\ UNCHANGED << loader, filename, lines, pc, current_transaction, previous_balance,
                    pending_line, current_section, credits, debits, df >>
    /\ UNCHANGED BatchVars
    /\ UNCHANGED PersistenceVars
    /\ UNCHANGED calls
    /\ UNCHANGED PageVars
    /\ UNCHANGED CategoryVars

\* Citi: the end of the document, lines 626-638
CitiFinish ==
    /\ pc = "scan" /\ loader = "citi" /\ i = Len(lines)
    /\ IF transactions = << >>
       THEN pc' = "error" /\ df' = df
       ELSE pc' = "done" /\ df' \in CitiResult(transactions)
    /\ UNCHANGED << loader, filename, lines, i, in_transaction_section, current_transaction,
                    previous_balance, pending_line, in_payments_section, current_cardholder,
                    pending_description, skip_next_line, current_section, credits, debits,
                    transactions >>
    /\ UNCHANGED BatchVars
    /\ UNCHANGED PersistenceVars
    /\ UNCHANGED calls
    /\ UNCHANGED PageVars
    /\ UNCHANGED CategoryVars

Next ==
    \/ CheckIsFile
    \/ BanamexScan(BanamexLines, MaxLines)
    \/ BanamexFinish
    \/ WellsfargoScan(WellsfargoLines, MaxLines)
    \/ WellsfargoFinish
    \/ ChaseScan(ChaseLines, MaxLines)
    \/ ChaseFinish
    \/ CitiScan
    \/ CitiFinish

Spec == Init /\ [][Next]_vars

\* Banamex alone, over documents with multi-line transactions
InitMultiline == InitWith({"banamex"}, FileNames, {}, 0)

NextMultiline ==
    \/ CheckIsFile
    \/ BanamexScan(BanamexMultilineLines, MaxMultilineLines)
    \/ BanamexFinish

SpecMultiline == InitMultiline /\ [][NextMultiline]_vars

\* bound: the number of lines of a document of BanamexNoiseLines
MaxNoiseLines == 4

StartWithoutAmountsLine == << N("03", 3), W("ENE"), W("COMPRA") >>
SucLine == << W("SUC"), W("0123"), A("", "185.00", 18500), A("", "150.00", 15000) >>
HoraLine == << W("HORA"), W("12:30") >>
DigitsLine == << W("12345678") >>
SpacedAmountLine == << A("", "185.0 0", 18500), A("", "150.00", 15000) >>
PageMarkerLine == << W("Pagina"), N("2", 2) >>

\* Banamex lines with metadata rows, a page marker and a summary marker
BanamexNoiseLines ==
    { BanamexHeaderLine, StartWithoutAmountsLine,
      << N("04", 4), W("ENE"), W("COMPRA"), A("", "36.00", 3600), A("", "100.00", 10000) >>,
      SucLine, HoraLine, DigitsLine, PageMarkerLine,
      << W("Resumen"), W("Operaciones") >>,
      AmazonLine, SpacedAmountLine }

\* Banamex alone, over documents with noise between the lines of a transaction
NextNoise ==
    \/ CheckIsFile
    \/ BanamexScan(BanamexNoiseLines, MaxNoiseLines)
    \/ BanamexFinish

SpecNoise == InitMultiline /\ [][NextNoise]_vars

\* bound: the number of lines of a document of WellsfargoPendingLines
MaxPendingLines == 5

WellsfargoColumnsLine == << W("Date"), W("Number"), W("Description") >>
TransferFromLine == << D("1/7", 1, 7), W("Transfer"), W("From") >>
SavingsLine == << W("Savings") >>
PaymentLine == << W("Payment"), A("", "25.00", 2500) >>

\* Wells Fargo lines with a dated line that has no amount, lines that continue
\* it, and the column header that a new page repeats
WellsfargoPendingLines ==
    { << W("Transaction"), W("history") >>, WellsfargoColumnsLine, TransferFromLine,
      SavingsLine, PaymentLine,
      << D("1/5", 1, 5), W("Deposit"), A("", "100.00", 10000) >>,
      << W("Totals"), A("$", "100.00", 10000) >> }

InitPending == InitWith({"wellsfargo"}, FileNames, {}, 0)

\* Wells Fargo alone, over documents whose transactions span lines
NextPending ==
    \/ CheckIsFile
    \/ WellsfargoScan(WellsfargoPendingLines, MaxPendingLines)
    \/ WellsfargoFinish

SpecPending == InitPending /\ [][NextPending]_vars

\* bound: the number of lines of a page of CitiPathLines
MaxCitiPathLines == 4

PuroDecemberLine == << D("12/20", 12, 20), W("PURO"), W("PA"), W("DELANTE") >>
PesoAmountLine == << A("", "250.00", 25000), W("MEXICAN"), W("PESO"), A("$", "13.51", 1351) >>
BrewCityLine == << W("BREW"), W("CITY"), W("BRAND") >>
DateAmountOnlyLine == << D("12/12", 12, 12), A("$", "68.00", 6800) >>
TwoDatesAmountLine == << D("02/28", 2, 28), D("02/28", 2, 28), A("$", "23.74", 2374) >>
AutopayLine == << D("01/03", 1, 3), W("AUTOPAY"), W("AUTO-PMT"), A("-$", "50.00", 5000) >>
DateAloneLine == << D("12/21", 12, 21) >>

\* Citi lines for each way a transaction is emitted: from a pending
\* description and a MEXICAN PESO line, from a pending description and a
\* "date amount" line, and from a transaction line
CitiPathLines ==
    { << W("Standard"), W("Purchases") >>,
      << W("Payments,"), W("Credits"), W("and"), W("Adjustments") >>,
      PuroDecemberLine, PesoAmountLine, BrewCityLine, DateAmountOnlyLine,
      TwoDatesAmountLine, AutopayLine, DateAloneLine }

\* statements of June 2026 and of December 2026, and a name without -mon-yyyy
CitiPathFiles ==
    { [match |-> TRUE, mon |-> "jun", yr |-> 2026, exists |-> TRUE],
      [match |-> TRUE, mon |-> "dec", yr |-> 2026, exists |-> TRUE],
      [match |-> FALSE, mon |-> "", yr |-> 0, exists |-> TRUE] }

InitCitiPaths == InitWith({"citi"}, CitiPathFiles, CitiPathLines, MaxCitiPathLines)

\* Citi alone, over pages that take every emission path
NextCitiPaths ==
    \/ CheckIsFile
    \/ CitiScan
    \/ CitiFinish

SpecCitiPaths == InitCitiPaths /\ [][NextCitiPaths]_vars

-----------------------------------------------------------------------------
(* Documents of several pages: Wells Fargo, Chase, Citi *)

\* bound: the number of lines of a document of several pages
MaxPagedLines == 4

\* Citi lines for a transaction that a page break splits
CitiPagedLines ==
    { << W("Standard"), W("Purchases") >>,
      PuroDecemberLine, PesoAmountLine, BrewCityLine, TwoDatesAmountLine }

\* a faulty page loop that starts every page outside the sections, with
\* nothing pending
TurnPageResetting ==
    /\ pc = "scan" /\ loader \in {"wellsfargo", "chase", "citi"}
    /\ IF loader = "citi"
       THEN /\ i = page_end /\ i < Len(lines)
            /\ page_begin' = i
            /\ page_end' \in (i + 1)..Len(lines)
       ELSE /\ page_begin < Len(lines)
            /\ page_begin' = Len(lines)
            /\ page_end' = page_end
    /\ in_transaction_section' = FALSE
    /\ pending_line' = None
    /\ in_payments_section' = FALSE
    /\ current_cardholder' = None
    /\ pending_description' = None
    /\ current_section' = None
    /\ UNCHANGED << loader, filename, lines, i, pc, current_transaction, previous_balance,
                    skip_next_line, credits, debits, transactions, df >>
    /\ UNCHANGED BatchVars
    /\ UNCHANGED PersistenceVars
    /\ UNCHANGED calls
    /\ UNCHANGED CategoryVars

\* "for page in pdf.pages": the loop goes on to the next page; the variables
\* set before the loop are not touched, and Citi's enumerate(lines) starts
\* over on the lines of the new page
TurnPage ==
    /\ pc = "scan" /\ loader \in {"wellsfargo", "chase", "citi"}
    /\ IF loader = "citi"
       THEN /\ i = page_end /\ i < Len(lines)
            /\ page_begin' = i
            /\ page_end' \in (i + 1)..Len(lines)
       ELSE /\ page_begin < Len(lines)
            /\ page_begin' = Len(lines)
            /\ page_end' = page_end
    /\ UNCHANGED << loader, filename, lines, i, pc, in_transaction_section,
                    current_transaction, previous_balance, pending_line,
                    in_payments_section, current_cardholder, pending_description,
                    skip_next_line, current_section, credits, debits, transactions, df >>
    /\ UNCHANGED BatchVars
    /\ UNCHANGED PersistenceVars
    /\ UNCHANGED calls
    /\ UNCHANGED CategoryVars

InitPages ==
    InitPaged({"wellsfargo", "chase", "citi"}, FileNames, CitiPagedLines, MaxPagedLines, TRUE)

\* Wells Fargo, Chase and Citi over documents of several pages
NextPages ==
    \/ CheckIsFile
    \/ TurnPage
    \/ WellsfargoScan(WellsfargoPendingLines, MaxPagedLines)
    \/ WellsfargoFinish
    \/ ChaseScan(ChaseLines, MaxPagedLines)
    \/ ChaseFinish
    \/ CitiScan
    \/ CitiFinish

SpecPages == InitPages /\ [][NextPages]_vars

-----------------------------------------------------------------------------
(* Chase: load_and_label_multiple_files *)

\* bound: the number of files of file_list
MaxFiles == 2

\* bound: the number of lines of a file of the list
MaxBatchLines == 2

\* the lines the files of the list are made of
ChaseBatchLines ==
    { << W("ELECTRONIC"), W("WITHDRAWALS") >>,
      << D("01/05", 1, 5), W("Rent"), A("", "2.00", 200) >>,
      << W("Total"), W("Deposits"), W("and"), W("Additions"), A("$", "600.00", 60000) >> }

\* the files of the list: os.path.exists(filename) and what the name holds
BatchFiles ==
    { [exists |-> FALSE, name |-> [match |-> FALSE, mon |-> "", yr |-> 0, exists |-> FALSE]],
      [exists |-> TRUE, name |-> [match |-> FALSE, mon |-> "", yr |-> 0, exists |-> TRUE]],
      [exists |-> TRUE, name |-> [match |-> TRUE, mon |-> "jun", yr |-> 2026, exists |-> TRUE]] }

\* the lists of one to n files
FileLists(n) == UNION { [1..k -> BatchFiles] : k \in 1..n }

\* load_expenses_and_credits: the rows of the frame with a Debit or a Credit
LoadExpensesAndCredits(frame) ==
    SelectSeq(frame, LAMBDA row : row.Debit # None \/ row.Credit # None)

\* pd.concat(all_expenses, ignore_index=True)
RECURSIVE Concat(_)
Concat(frames) ==
    IF frames = << >> THEN << >> ELSE Head(frames) \o Concat(Tail(frames))

\* the state on entry to load_and_label_multiple_files
InitBatch ==
    /\ loader = "chase"
    /\ filename = [match |-> FALSE, mon |-> "", yr |-> 0, exists |-> TRUE]
    /\ lines = << >>
    /\ i = 0
    /\ pc = "idle"
    /\ in_transaction_section = FALSE
    /\ current_transaction = None
    /\ previous_balance = None
    /\ pending_line = None
    /\ in_payments_section = FALSE
    /\ current_cardholder = None
    /\ pending_description = None
    /\ skip_next_line = FALSE
    /\ current_section = None
    /\ credits = << >>
    /\ debits = << >>
    /\ transactions = << >>
    /\ df = << >>
    /\ file_list \in FileLists(MaxFiles)
    /\ file_index = 0
    /\ all_expenses = << >>
    /\ warnings = 0
    /\ combined = << >>
    /\ batch_pc = "loop"
    /\ corrections_file = None
    /\ corrections = << >>
    /\ calls = 0
    /\ page_begin = 0
    /\ page_end = Len(lines)
    /\ expenses = << >>
    /\ corrections_df = << >>
    /\ all_labeled_expenses = << >>
    /\ summary = << >>
    /\ stage = "idle"

OtherAdapterVars == << loader, in_transaction_section, current_transaction, previous_balance,
                       pending_line, in_payments_section, current_cardholder,
                       pending_description, skip_next_line >>

\* the next file does not exist: the warning is printed and the loop goes on
BatchSkip ==
    /\ batch_pc = "loop" /\ file_index < Len(file_list)
    /\ ~file_list[file_index + 1].exists
    /\ warnings' = warnings + 1
    /\ file_index' = file_index + 1
    /\ UNCHANGED << filename, lines, i, pc, current_section, credits, debits, transactions, df,
                    file_list, all_expenses, combined, batch_pc >>
    /\ UNCHANGED OtherAdapterVars
    /\ UNCHANGED PersistenceVars
    /\ UNCHANGED calls
    /\ UNCHANGED PageVars
    /\ UNCHANGED CategoryVars

\* the next file exists: load_expenses_and_credits enters
\* _extract_transactions_from_pdf on it
BatchOpen ==
    /\ batch_pc = "loop" /\ file_index < Len(file_list)
    /\ file_list[file_index + 1].exists
    /\ filename' = file_list[file_index + 1].name
    /\ lines' = << >>
    /\ i' = 0
    /\ pc' = "scan"
    /\ current_section' = None
    /\ credits' = << >>
    /\ debits' = << >>
    /\ transactions' = << >>
    /\ df' = << >>
    /\ batch_pc' = "load"
    /\ UNCHANGED << file_list, file_index, all_expenses, warnings, combined >>
    /\ UNCHANGED OtherAdapterVars
    /\ UNCHANGED PersistenceVars
    /\ UNCHANGED calls
    /\ UNCHANGED PageVars
    /\ UNCHANGED CategoryVars

\* the extraction returned a frame: it is labelled and appended
BatchCollect ==
    /\ batch_pc = "load" /\ pc = "done"
    /\ all_expenses' = Append(all_expenses, LoadExpensesAndCredits(df))
    /\ file_index' = file_index + 1
    /\ pc' = "idle"
    /\ batch_pc' = "loop"
    /\ UNCHANGED << filename, lines, i, current_section, credits, debits, transactions, df,
                    file_list, warnings, combined >>
    /\ UNCHANGED OtherAdapterVars
    /\ UNCHANGED PersistenceVars
    /\ UNCHANGED calls
    /\ UNCHANGED PageVars
    /\ UNCHANGED CategoryVars

\* the extraction raised ValueError: nothing in the loop catches it
BatchRaise ==
    /\ batch_pc = "load" /\ pc = "error"
    /\ batch_pc' = "error"
    /\ UNCHANGED << filename, lines, i, pc, current_section, credits, debits, transactions, df,
                    file_list, file_index, all_expenses, warnings, combined >>
    /\ UNCHANGED OtherAdapterVars
    /\ UNCHANGED PersistenceVars
    /\ UNCHANGED calls
    /\ UNCHANGED PageVars
    /\ UNCHANGED CategoryVars

\* after the loop: ValueError when nothing was appended, else the frames joined
BatchFinish ==
    /\ batch_pc = "loop" /\ file_index = Len(file_list)
    /\ IF all_expenses = << >>
       THEN batch_pc' = "error" /\ combined' = combined
       ELSE batch_pc' = "done" /\ combined' = Concat(all_expenses)
    /\ UNCHANGED << filename, lines, i, pc, current_section, credits, debits, transactions, df,
                    file_list, file_index, all_expenses, warnings >>
    /\ UNCHANGED OtherAdapterVars
    /\ UNCHANGED PersistenceVars
    /\ UNCHANGED calls
    /\ UNCHANGED PageVars
    /\ UNCHANGED CategoryVars

\* inside the batch the Chase extraction runs only while a file is open
NextBatch ==
    \/ BatchSkip
    \/ BatchOpen
    \/ batch_pc = "load" /\ ChaseScan(ChaseBatchLines, MaxBatchLines)
    \/ batch_pc = "load" /\ ChaseFinish
    \/ BatchCollect
    \/ BatchRaise
    \/ BatchFinish

SpecBatch == InitBatch /\ [][NextBatch]_vars

-----------------------------------------------------------------------------
(* One loader, called again *)

\* bound: the number of lines of a document parsed by a loader called again
MaxReparseLines == 3

\* bound: the number of further calls on the loader
MaxCalls == 1

\* the lines of the Citi pages of a loader called again
CitiReparseLines ==
    { << W("Standard"), W("Purchases") >>,
      << D("12/09", 12, 9), D("12/10", 12, 10), W("DAIRY"), W("QUEEN"), A("$", "11.50", 1150) >>,
      << D("01/05", 1, 5), W("PURO"), W("PA"), W("DELANTE") >>,
      << A("", "250.00", 25000), W("MEXICAN"), W("PESO"), A("$", "13.51", 1351) >> }

\* a faulty entry that leaves self.previous_balance as the last call left it
ExtractAgainKeepingBalance ==
    /\ pc \in {"done", "error"} /\ calls < MaxCalls
    /\ calls' = calls + 1
    /\ filename' \in { f \in FileNames : f.exists }
    /\ lines' \in (IF loader = "citi" THEN Docs(CitiReparseLines, MaxReparseLines)
                                       ELSE { << >> })
    /\ i' = 0
    /\ pc' = "scan"
    /\ in_transaction_section' = FALSE
    /\ current_transaction' = None
    /\ pending_line' = None
    /\ in_payments_section' = FALSE
    /\ current_cardholder' = None
    /\ pending_description' = None
    /\ skip_next_line' = FALSE
    /\ current_section' = None
    /\ credits' = << >>
    /\ debits' = << >>
    /\ transactions' = << >>
    /\ df' = << >>
    /\ page_begin' = 0
    /\ page_end' = Len(lines')
    /\ UNCHANGED CategoryVars
    /\ UNCHANGED << loader, previous_balance >>
    /\ UNCHANGED BatchVars
    /\ UNCHANGED PersistenceVars

\* _extract_transactions_from_pdf entered again on the loader that has
\* returned or raised: the lists, the flags and self.previous_balance are set anew
ExtractAgain ==
    /\ pc \in {"done", "error"} /\ calls < MaxCalls
    /\ calls' = calls + 1
    /\ filename' \in { f \in FileNames : f.exists }
    /\ lines' \in (IF loader = "citi" THEN Docs(CitiReparseLines, MaxReparseLines)
                                       ELSE { << >> })
    /\ i' = 0
    /\ pc' = "scan"
    /\ in_transaction_section' = FALSE
    /\ current_transaction' = None
    /\ previous_balance' = None
    /\ pending_line' = None
    /\ in_payments_section' = FALSE
    /\ current_cardholder' = None
    /\ pending_description' = None
    /\ skip_next_line' = FALSE
    /\ current_section' = None
    /\ credits' = << >>
    /\ debits' = << >>
    /\ transactions' = << >>
    /\ df' = << >>
    /\ page_begin' = 0
    /\ page_end' = Len(lines')
    /\ UNCHANGED CategoryVars
    /\ UNCHANGED loader
    /\ UNCHANGED BatchVars
    /\ UNCHANGED PersistenceVars

InitReparse == InitWith(Loaders, FileNames, CitiReparseLines, MaxReparseLines)

NextReparse ==
    \/ CheckIsFile
    \/ BanamexScan(BanamexLines, MaxReparseLines)
    \/ BanamexFinish
    \/ WellsfargoScan(WellsfargoLines, MaxReparseLines)
    \/ WellsfargoFinish
    \/ ChaseScan(ChaseLines, MaxReparseLines)
    \/ ChaseFinish
    \/ CitiScan
    \/ CitiFinish
    \/ ExtractAgain

SpecReparse == InitReparse /\ [][NextReparse]_vars

\* the calls run to their end: each for loop takes its next pass, or ends,
\* while there is one to take
NextTermination ==
    \/ CheckIsFile
    \/ BanamexScan(BanamexNoiseLines, MaxReparseLines)
    \/ BanamexFinish
    \/ WellsfargoScan(WellsfargoLines, MaxReparseLines)
    \/ WellsfargoFinish
    \/ ChaseScan(ChaseLines, MaxReparseLines)
    \/ ChaseFinish
    \/ CitiScan
    \/ CitiFinish

SpecTermination == InitReparse /\ [][NextTermination]_vars /\ WF_vars(NextTermination)

-----------------------------------------------------------------------------
(* FilePersistence: the corrections store *)

\* bound: the number of rows of the frame given to save_corrections
MaxCorrections == 2

\* texts that pd.read_csv reads as a missing value (its default na_values)
NaTexts == {"", "NA", "N/A", "NULL", "NaN", "n/a", "nan", "null"}

\* a cell of a frame: a string, or the missing value
Str(text) == [na |-> FALSE, s |-> text]
NaN == [na |-> TRUE, s |-> ""]

\* pd.read_csv: the cell read from the text of a field
ReadCsvCell(text) == IF text \in NaTexts THEN NaN ELSE Str(text)

\* to_csv(index=False): the text written for a cell; a missing value is written empty
ToCsvCell(cell) == IF cell.na THEN "" ELSE cell.s

ReadCsv(rows) ==
    [j \in 1..Len(rows) |-> [Description |-> ReadCsvCell(rows[j].Description),
                             Category |-> ReadCsvCell(rows[j].Category)]]

ToCsv(frame) ==
    [j \in 1..Len(frame) |-> [Description |-> ToCsvCell(frame[j].Description),
                              Category |-> ToCsvCell(frame[j].Category)]]

\* drop_duplicates(subset=["Description", "Category"]): the first row of each pair
RECURSIVE DropDuplicates(_)
DropDuplicates(frame) ==
    IF frame = << >> THEN << >>
    ELSE LET n == Len(frame)
             front == DropDuplicates(SubSeq(frame, 1, n - 1))
         IN  IF \E h \in 1..(n - 1) : frame[h] = frame[n]
             THEN front
             ELSE Append(front, frame[n])

\* the rows the user's corrections are made of: the description of an expense
\* and the category typed at the prompt
CorrectionRows ==
    { [Description |-> Str(d), Category |-> Str(c)] :
        d \in {"AMAZON", "COSTCO"}, c \in {"Shopping", "NA"} }

\* the frames given to save_corrections
CorrectionFrames == Docs(CorrectionRows, MaxCorrections) \ { << >> }

\* the store before the first call: no file, or a file written earlier
InitCorrections ==
    /\ loader = "chase"
    /\ filename = [match |-> FALSE, mon |-> "", yr |-> 0, exists |-> TRUE]
    /\ lines = << >>
    /\ i = 0
    /\ pc = "idle"
    /\ in_transaction_section = FALSE
    /\ current_transaction = None
    /\ previous_balance = None
    /\ pending_line = None
    /\ in_payments_section = FALSE
    /\ current_cardholder = None
    /\ pending_description = None
    /\ skip_next_line = FALSE
    /\ current_section = None
    /\ credits = << >>
    /\ debits = << >>
    /\ transactions = << >>
    /\ df = << >>
    /\ file_list = << >>
    /\ file_index = 0
    /\ all_expenses = << >>
    /\ warnings = 0
    /\ combined = << >>
    /\ batch_pc = "idle"
    /\ corrections_file \in
         { None, Some(<< >>), Some(<< [Description |-> "COSTCO", Category |-> "Groceries"] >>) }
    /\ corrections = << >>
    /\ calls = 0
    /\ page_begin = 0
    /\ page_end = Len(lines)
    /\ expenses = << >>
    /\ corrections_df = << >>
    /\ all_labeled_expenses = << >>
    /\ summary = << >>
    /\ stage = "idle"

\* save_corrections(corrections, filename)
SaveCorrections ==
    /\ \E frame \in CorrectionFrames :
        /\ corrections' = frame
        /\ corrections_file' =
             IF corrections_file # None
             THEN LET prev == ReadCsv(corrections_file[1])
                      all_corr == DropDuplicates(prev \o frame)
                  IN  Some(ToCsv(all_corr))
             ELSE Some(ToCsv(frame))
    /\ UNCHANGED << loader, filename, lines, i, pc, in_transaction_section,
                    current_transaction, previous_balance, pending_line, in_payments_section,
                    current_cardholder, pending_description, skip_next_line, current_section,
                    credits, debits, transactions, df >>
    /\ UNCHANGED BatchVars
    /\ UNCHANGED calls
    /\ UNCHANGED PageVars
    /\ UNCHANGED CategoryVars

NextCorrections == SaveCorrections

SpecCorrections == InitCorrections /\ [][NextCorrections]_vars

-----------------------------------------------------------------------------
(* Corrections.apply_corrections and Summarizer.summarize_by_category *)

\* bound: the number of rows of the expenses given to apply_corrections
MaxExpenses == 2

\* bound: the number of rows of all_labeled_expenses
MaxLabeled == 1

\* bound: the number of rows of the expenses given to summarize_by_category
MaxSummaryRows == 2

\* descriptions, character by character
AMZN == << "A", "M", "Z", "N" >>
UBER == << "U", "B", "E", "R" >>
NanBakery == << "N", "a", "n" >>

\* the missing value in a column of descriptions kept character by character
NoText == [na |-> TRUE, s |-> << >>]

\* str.lower() of a character of the descriptions
LowerChar(c) ==
    CASE c = "A" -> "a" [] c = "M" -> "m" [] c = "Z" -> "z" [] c = "N" -> "n"
      [] c = "U" -> "u" [] c = "B" -> "b" [] c = "E" -> "e" [] c = "R" -> "r"
      [] OTHER -> c

\* str(x).lower() of a cell: the missing value reads "nan"
StrLower(cell) ==
    IF cell.na THEN << "n", "a", "n" >> ELSE [j \in 1..Len(cell.s) |-> LowerChar(cell.s[j])]

\* "a in b" of two strings
IsSubstring(a, b) ==
    \E k \in 0..(Len(b) - Len(a)) : SubSeq(b, k + 1, k + Len(a)) = a

\* [(str(desc).lower(), cat) for desc, cat in zip(frame["Description"], frame["Category"])]
LoweredList(frame) ==
    [j \in 1..Len(frame) |-> [desc |-> StrLower(frame[j].Description), cat |-> frame[j].Category]]

\* the loop "for corr_desc, cat in list: if corr_desc in desc_lower: return cat":
\* None when the loop ends without a return
RECURSIVE FirstSubstringCategory(_, _)
FirstSubstringCategory(list, desc_lower) ==
    IF list = << >> THEN None
    ELSE IF IsSubstring(list[1].desc, desc_lower) THEN Some(list[1].cat)
    ELSE FirstSubstringCategory(Tail(list), desc_lower)

\* a faulty find_correction that looks at the historical labels first
FindCorrectionLabeledFirst(row, corrections_list, labeled_list) ==
    LET desc_lower == StrLower(row.Description)
        labeled == FirstSubstringCategory(labeled_list, desc_lower)
        corr == FirstSubstringCategory(corrections_list, desc_lower)
    IN  IF labeled # None THEN labeled[1]
        ELSE IF corr # None THEN corr[1]
        ELSE row.Category

\* find_correction(row)
FindCorrection(row, corrections_list, labeled_list) ==
    LET desc_lower == StrLower(row.Description)
        corr == FirstSubstringCategory(corrections_list, desc_lower)
        labeled == FirstSubstringCategory(labeled_list, desc_lower)
    IN  IF corr # None THEN corr[1]
        ELSE IF labeled # None THEN labeled[1]
        ELSE row.Category

\* the expenses apply_corrections is given: categorized, not yet corrected
ExpenseRows ==
    { [Description |-> Str(d), Category |-> Str("Other"), Debit |-> Some(1000), Credit |-> None] :
        d \in {AMZN, UBER, NanBakery} }

\* the rows of corrections.csv as load_corrections returns them
CorrectionEntries ==
    { [Description |-> d, Category |-> Str(c)] :
        d \in {Str(<< "a", "m", "z" >>), Str(<< "M", "Z", "N" >>), NoText},
        c \in {"Shopping", "Food"} }

\* the rows of the labelled expenses of earlier statements
LabeledRows ==
    { [Description |-> Str(d), Category |-> Str("Travel")] :
        d \in {AMZN, << "b", "e", "r" >>} }

\* the adapters, the batch and the store take no part
NoLoaderRuns ==
    /\ loader = "citi"
    /\ filename = [match |-> TRUE, mon |-> "jun", yr |-> 2026, exists |-> TRUE]
    /\ lines = << >>
    /\ i = 0
    /\ pc = "idle"
    /\ in_transaction_section = FALSE
    /\ current_transaction = None
    /\ previous_balance = None
    /\ pending_line = None
    /\ in_payments_section = FALSE
    /\ current_cardholder = None
    /\ pending_description = None
    /\ skip_next_line = FALSE
    /\ current_section = None
    /\ credits = << >>
    /\ debits = << >>
    /\ transactions = << >>
    /\ df = << >>
    /\ file_list = << >>
    /\ file_index = 0
    /\ all_expenses = << >>
    /\ warnings = 0
    /\ combined = << >>
    /\ batch_pc = "idle"
    /\ corrections_file = None
    /\ corrections = << >>
    /\ calls = 0
    /\ page_begin = 0
    /\ page_end = 0

\* main, before step 5: the expenses are categorized and the corrections loaded
InitApply ==
    /\ NoLoaderRuns
    /\ expenses \in Docs(ExpenseRows, MaxExpenses) \ { << >> }
    /\ corrections_df \in Docs(CorrectionEntries, MaxCorrections)
    /\ all_labeled_expenses \in Docs(LabeledRows, MaxLabeled)
    /\ summary = << >>
    /\ stage = "predicted"

\* apply_corrections(expenses, corrections_df, all_labeled_expenses)
ApplyCorrections ==
    /\ stage = "predicted"
    /\ LET corrections_list == LoweredList(corrections_df)
           labeled_list == LoweredList(all_labeled_expenses)
       IN  expenses' =
             [j \in 1..Len(expenses) |->
                [expenses[j] EXCEPT !.Category =
                     FindCorrection(expenses[j], corrections_list, labeled_list)]]
    /\ stage' = "corrected"
    /\ UNCHANGED << corrections_df, all_labeled_expenses, summary >>
    /\ UNCHANGED << loader, filename, lines, i, pc, in_transaction_section,
                    current_transaction, previous_balance, pending_line, in_payments_section,
                    current_cardholder, pending_description, skip_next_line, current_section,
                    credits, debits, transactions, df >>
    /\ UNCHANGED BatchVars
    /\ UNCHANGED PersistenceVars
    /\ UNCHANGED calls
    /\ UNCHANGED PageVars

NextApply == ApplyCorrections

SpecApply == InitApply /\ [][NextApply]_vars

\* the sum of a column over the rows of a category; sum() skips missing values
\* and is 0 when every value is missing
RECURSIVE SumColumn(_, _, _)
SumColumn(frame, cat, col) ==
    IF frame = << >> THEN 0
    ELSE LET r == frame[1]
             v == IF col = "Debit" THEN r.Debit ELSE r.Credit
         IN  (IF r.Category = Str(cat) /\ v # None THEN v[1] ELSE 0)
               + SumColumn(Tail(frame), cat, col)

\* the keys of groupby("Category"): rows without a category are dropped
GroupKeys(frame) ==
    { frame[j].Category.s : j \in { k \in 1..Len(frame) : ~frame[k].Category.na } }

\* the row of a category: summary["Net"] = summary["Debit"] + summary["Credit"]
SummaryRow(frame, cat) ==
    LET debit == SumColumn(frame, cat, "Debit")
        credit == SumColumn(frame, cat, "Credit")
    IN  [Category |-> cat, Debit |-> debit, Credit |-> credit, Net |-> debit + credit]

\* the outcomes of summarize_by_category: the rows of the categories sorted by
\* Net descending, rows of equal Net in any order (quicksort)
SummarizeByCategory(frame) ==
    LET rows == { SummaryRow(frame, cat) : cat \in GroupKeys(frame) }
        n == Cardinality(rows)
    IN  { sq \in [1..n -> rows] :
            /\ \A a, b \in 1..n : a # b => sq[a] # sq[b]
            /\ \A a, b \in 1..n : a < b => sq[a].Net >= sq[b].Net }

\* the expenses summarize_by_category is given
SummaryExpenseRows ==
    { [Description |-> Str(AMZN), Category |-> Str(c), Debit |-> side[1], Credit |-> side[2]] :
        c \in {"Shopping", "Food"},
        side \in { << Some(1000), None >>, << Some(250), None >>,
                   << None, Some(500) >>, << None, Some(1000) >> } }

\* main, before step 7
InitSummary ==
    /\ NoLoaderRuns
    /\ expenses \in Docs(SummaryExpenseRows, MaxSummaryRows)
    /\ corrections_df = << >>
    /\ all_labeled_expenses = << >>
    /\ summary = << >>
    /\ stage = "corrected"

\* summary = summarizer.summarize_by_category(ml_corrected)
Summarize ==
    /\ stage = "corrected"
    /\ summary' \in SummarizeByCategory(expenses)
    /\ stage' = "summarized"
    /\ UNCHANGED << expenses, corrections_df, all_labeled_expenses >>
    /\ UNCHANGED << loader, filename, lines, i, pc, in_transaction_section,
                    current_transaction, previous_balance, pending_line, in_payments_section,
                    current_cardholder, pending_description, skip_next_line, current_section,
                    credits, debits, transactions, df >>
    /\ UNCHANGED BatchVars
    /\ UNCHANGED PersistenceVars
    /\ UNCHANGED calls
    /\ UNCHANGED PageVars

NextSummary == Summarize

SpecSummary == InitSummary /\ [][NextSummary]_vars

-----------------------------------------------------------------------------
(* Properties *)

Abs(x) == IF x < 0 THEN 0 - x ELSE x

\* the amount of a row, on whichever side it stands
AmountOf(row) == IF row.Debit # None THEN row.Debit[1] ELSE row.Credit[1]

ExactlyOneSide(row) == (row.Debit = None) # (row.Credit = None)

\* the line a scan step has just read, and the amounts found in it
NewLine == lines'[Len(lines')]
AmountValues(line) == [j \in 1..Len(SelectToks(line, "amt")) |-> SelectToks(line, "amt")[j].v]

\* a step that appends one record to the list of transactions
Emits == Len(transactions') = Len(transactions) + 1
Emitted == transactions'[Len(transactions')]

\* a Wells Fargo step that reads, in the transaction section and with nothing
\* pending, a line that starts with a date
WellsfargoReadsDatedLine ==
    /\ loader = "wellsfargo" /\ pc = "scan" /\ pc' = "scan"
    /\ in_transaction_section /\ pending_line = None
    /\ Len(NewLine) >= 2 /\ NewLine[1].k = "date"

\* C1: for every adapter and every document, every record emitted has exactly
\* one of Debit and Credit set, never both and never neither; this holds of
\* the list of transactions while it is built and of the frame returned.
C1_ExactlyOneOfDebitCredit ==
    /\ \A k \in 1..Len(transactions) : ExactlyOneSide(transactions[k])
    /\ \A k \in 1..Len(df) : ExactlyOneSide(df[k])

\* a frame is returned that holds a debit and a credit
C1_Witness ==
    /\ pc = "done"
    /\ \E a, b \in 1..Len(df) :
        /\ df[a].Debit # None /\ df[a].Credit = None
        /\ df[b].Credit # None /\ df[b].Debit = None

\* C2: for every adapter the frame returned is in ascending order of date,
\* whatever the order of the dated lines in the document.
C2_SortedByDate ==
    pc = "done" =>
        \A a, b \in 1..Len(df) :
            a < b /\ df[a].Date # NaT /\ df[b].Date # NaT
                => DateKey(df[a].Date) <= DateKey(df[b].Date)

\* C3: in the frame returned, two transactions with equal dates stand in the
\* order in which their lines were met in the document; stated here for Chase
\* and a credit and a debit of the same date.
C3_EqualDatesKeepEncounterOrder ==
    pc = "done" /\ loader = "chase" =>
        \A a, b \in 1..Len(df) :
            /\ a < b
            /\ df[a].Date # NaT /\ df[a].Date = df[b].Date
            /\ (df[a].Debit = None) # (df[b].Debit = None)
            => df[a].seq < df[b].seq

\* C4: for every adapter, a transaction whose month is greater than the
\* statement month of the file name is dated in the statement year minus one,
\* and any other in the statement year.
C4_YearRollover ==
    pc = "done" /\ filename.match =>
        \A k \in 1..Len(df) :
            df[k].Date # NaT =>
                df[k].Date.y = IF df[k].Date.m > StatementMonthNum(filename)
                               THEN filename.yr - 1
                               ELSE filename.yr

\* C5: every amount the Banamex adapter emits is round(raw / 18.5, 2) of the
\* first amount of the transaction finalized, i.e. the cents nearest to
\* 10 * raw / 185, so that 185.00 gives 10.00; the balance kept for the next
\* comparison is the last amount, unconverted.
C5_BanamexConversion ==
    [][ loader = "banamex" /\ Emits =>
            LET amounts == current_transaction[1].amounts
                raw == amounts[1]
                amt == AmountOf(Emitted)
            IN  /\ 2 * Abs(185 * amt - 10 * raw) <= 185
                /\ (raw = 18500 => amt = 1000)
                /\ previous_balance' = Some(amounts[Len(amounts)])
      ]_vars

\* the transaction of 185.00 pesos is returned as 10.00
C5_Witness ==
    /\ pc = "done" /\ loader = "banamex"
    /\ \E k \in 1..Len(df) : df[k].Description = "COMPRA" /\ df[k].Date.m = 12
                             /\ AmountOf(df[k]) = 1000

C7_EndToEnd ==
    pc = "done" /\ lines = << BanamexHeaderLine, PagoRecibidoLine, AmountBalanceLine >> =>
        df = << Row([d |-> 1, m |-> 1, y |-> YearOf(filename)],
                    "PAGO RECIBIDO TRANSFERENCIA", None, Some(5405), 1) >>

\* that document is parsed under a file name giving no year, hence 2025
C7_Witness ==
    /\ pc = "done" /\ ~filename.match
    /\ lines = << BanamexHeaderLine, PagoRecibidoLine, AmountBalanceLine >>
    /\ Len(df) = 1 /\ df[1].Date = [d |-> 1, m |-> 1, y |-> 2025]
    /\ df[1].Credit = Some(5405)

\* C7 as stated: the two lines alone give that one transaction
C7_WithoutHeader ==
    pc = "done" /\ lines = << PagoRecibidoLine, AmountBalanceLine >> =>
        /\ Len(df) = 1
        /\ df[1].Date = [d |-> 1, m |-> 1, y |-> YearOf(filename)]
        /\ df[1].Description = "PAGO RECIBIDO TRANSFERENCIA"
        /\ df[1].Credit = Some(5405) /\ df[1].Debit = None

\* the document of C8: a dated line, the two lines of description, and the
\* line of amounts
MultiLineDoc(amountLine) ==
    << BanamexHeaderLine, DateAmountLine, AmazonLine, MktplaceLine, amountLine >>

C9_SingleAmountPolicy ==
    [][ /\ ( /\ loader = "banamex" /\ pc = "scan"
             /\ current_transaction # None
             /\ Len(current_transaction[1].amounts) = 1
             => /\ transactions' = transactions
                /\ (pc' = "done" => Len(df') = Len(transactions)) )
        /\ ( WellsfargoReadsDatedLine /\ Len(AmountValues(NewLine)) = 1
             => /\ Emits
                /\ AmountOf(Emitted) = AmountValues(NewLine)[1]
                /\ previous_balance' = None )
      ]_vars

\* a Banamex document whose only transaction has one amount gives an empty frame
C9_Witness ==
    /\ pc = "done" /\ loader = "banamex"
    /\ Len(lines) = 2 /\ lines[1] = BanamexHeaderLine
    /\ current_transaction # None /\ current_transaction[1].amounts = << 4000 >>
    /\ df = << >>

\* C10: when a Banamex transaction holds two or more amounts, the first is the
\* transaction amount and the last the running balance; on a Wells Fargo line
\* with two or more amounts, the amount before the last is the transaction
\* amount (the first, when there are two) and the last is ignored.
C10_AmountAndBalance ==
    [][ /\ ( loader = "banamex" /\ Emits
             => LET amounts == current_transaction[1].amounts
                IN  /\ Len(amounts) >= 2
                    /\ 2 * Abs(185 * AmountOf(Emitted) - 10 * amounts[1]) <= 185
                    /\ previous_balance' = Some(amounts[Len(amounts)]) )
        /\ ( WellsfargoReadsDatedLine /\ Len(AmountValues(NewLine)) >= 2
             => LET amounts == AmountValues(NewLine)
                IN  /\ Emits
                    /\ AmountOf(Emitted) = amounts[Len(amounts) - 1]
                    /\ (Len(amounts) = 2 => AmountOf(Emitted) = amounts[1]) )
      ]_vars

\* the Wells Fargo line with amounts 10.00, 20.00, 30.00 is returned with 20.00
C10_Witness ==
    /\ pc = "done" /\ loader = "wellsfargo"
    /\ Len(lines) = 2 /\ AmountValues(lines[2]) = << 1000, 2000, 3000 >>
    /\ Len(df) = 1 /\ df[1].Debit = Some(2000)

\* C10 as stated: on a Wells Fargo line with two or more amounts the first is
\* the transaction amount
C10_FirstAmountWellsfargo ==
    [][ WellsfargoReadsDatedLine /\ Len(AmountValues(NewLine)) >= 2
        => Emits /\ AmountOf(Emitted) = AmountValues(NewLine)[1]
      ]_vars

\* a Banamex step that reads a continuation line: in the section, with a
\* transaction open, a line that is no marker and does not start with a date
BanamexReadsContinuation ==
    /\ loader = "banamex" /\ pc = "scan" /\ pc' = "scan"
    /\ in_transaction_section /\ current_transaction # None
    /\ ~BanamexIsHeader(NewLine) /\ ~BanamexIsSectionEnd(NewLine)
    /\ ~BanamexIsPageMarker(NewLine) /\ ~BanamexIsSkipped(NewLine)
    /\ ~BanamexDateMatch(NewLine)

BanamexEmittable(t) ==
    /\ Len(t.amounts) >= 2
    /\ Flatten(t.description_lines) # << >>
    /\ ~HasPhrase(Upper(Texts(Flatten(t.description_lines))), <<"SALDO", "ANTERIOR">>)

\* a Banamex step that reads, in the section, a line that starts a transaction
BanamexReadsStart ==
    /\ loader = "banamex" /\ pc = "scan" /\ pc' = "scan"
    /\ in_transaction_section
    /\ ~BanamexIsHeader(NewLine) /\ ~BanamexIsSectionEnd(NewLine)
    /\ ~BanamexIsPageMarker(NewLine) /\ ~BanamexIsSkipped(NewLine)
    /\ BanamexDateMatch(NewLine)

\* a Wells Fargo step that reads, in the section, a line that starts with a date
WellsfargoReadsStart ==
    /\ loader = "wellsfargo" /\ pc = "scan" /\ pc' = "scan"
    /\ in_transaction_section
    /\ ~WellsfargoIsHeader(NewLine)
    /\ Len(NewLine) >= 2 /\ NewLine[1].k = "date"

BanamexReadsSectionEnd ==
    /\ loader = "banamex" /\ pc = "scan" /\ pc' = "scan"
    /\ ~HasPhrase(Texts(NewLine), <<"FECHA", "CONCEPTO">>)
    /\ \/ HasPhrase(Texts(NewLine), <<"Resumen", "Operaciones">>)
       \/ Len(NewLine) >= 2 /\ NewLine[1].t = "TARJETA"
BanamexEndsDocument == loader = "banamex" /\ pc = "scan" /\ pc' = "done"

\* a Wells Fargo step that reads the totals line, or the step at the end of
\* the document
WellsfargoReadsTotals ==
    /\ loader = "wellsfargo" /\ pc = "scan" /\ pc' = "scan"
    /\ ~HasPhrase(Texts(NewLine), <<"Transaction", "history">>)
    /\ NewLine # << >> /\ NewLine[1].t = "Totals"
WellsfargoEndsDocument == loader = "wellsfargo" /\ pc = "scan" /\ pc' # "scan"

\* C13: on a section-end marker and at the end of the document the open
\* pending transaction is finalized: it is emitted when its amounts resolve,
\* and nothing else is emitted; after a section-end marker nothing is pending
\* and the assembler is outside the section; at the end of the document the
\* frame returned holds every emitted record.
C13_EndFinalizesPending ==
    [][ /\ ( BanamexReadsSectionEnd \/ BanamexEndsDocument =>
               IF current_transaction # None /\ BanamexEmittable(current_transaction[1])
               THEN /\ Emits
                    /\ Emitted.Description =
                           JoinText(Flatten(current_transaction[1].description_lines))
                    /\ Emitted.Date.d = current_transaction[1].day
               ELSE transactions' = transactions )
        /\ ( BanamexReadsSectionEnd =>
               current_transaction' = None /\ ~in_transaction_section' )
        /\ ( BanamexEndsDocument =>
               /\ Len(df') = Len(transactions')
               /\ \A k \in 1..Len(transactions') : \E j \in 1..Len(df') :
                      df'[j].seq = transactions'[k].seq )
        /\ ( WellsfargoReadsTotals \/ WellsfargoEndsDocument =>
               IF pending_line # None /\ AmountValues(pending_line[1]) # << >>
               THEN Emits
               ELSE transactions' = transactions )
        /\ ( WellsfargoReadsTotals => pending_line' = None /\ ~in_transaction_section' )
        /\ ( WellsfargoEndsDocument /\ transactions' # << >> =>
               pc' = "done" /\ Len(df') = Len(transactions') )
      ]_vars

\* "28 DIC COMPRA 185.00 150.00" was pending when "Resumen Operaciones" came
C13_Witness ==
    /\ loader = "banamex" /\ pc = "scan" /\ Len(lines) = 3
    /\ BanamexDateMatch(lines[2])
    /\ HasPhrase(Texts(lines[3]), <<"Resumen", "Operaciones">>)
    /\ Len(transactions) = 1 /\ transactions[1].Date.m = 12
    /\ current_transaction = None /\ ~in_transaction_section

\* the line a Citi scan step handles
CitiCurrentLine == lines[i + 1]

\* a Citi step that handles a MEXICAN PESO amount line
\* ("250.00 MEXICAN PESO $13.51")
CitiReadsPesoLine ==
    /\ loader = "citi" /\ pc = "scan" /\ pc' = "scan" /\ ~skip_next_line
    /\ Len(CitiCurrentLine) >= 4
    /\ CitiCurrentLine[1].k = "amt" /\ CitiCurrentLine[1].p = ""
    /\ CitiCurrentLine[2].t = "MEXICAN" /\ CitiCurrentLine[3].t = "PESO"
    /\ CitiCurrentLine[4].k = "amt"

\* the buffered description starts with a date that text follows
CitiPendingIsDated ==
    /\ pending_description # None
    /\ Len(pending_description[1]) >= 2
    /\ pending_description[1][1].k = "date"

\* C14: in the Citi adapter a MEXICAN PESO amount line gives exactly one
\* transaction, with the date that starts the buffered description and the
\* amount of the line, when a description is buffered, it starts with a date
\* and the adapter is not in the payments section; in every other case the
\* line gives no transaction; the buffer is empty afterwards in all cases.
C14_PesoLineResolvesPending ==
    [][ CitiReadsPesoLine =>
            /\ pending_description' = None
            /\ IF CitiPendingIsDated /\ ~in_payments_section
               THEN /\ Emits
                    /\ Emitted.Date.d = pending_description[1][1].v
                    /\ Emitted.Date.m = pending_description[1][1].m
                    /\ AmountOf(Emitted) = CitiCurrentLine[4].v
               ELSE transactions' = transactions
      ]_vars

\* "01/05 PURO PA DELANTE" then "250.00 MEXICAN PESO $13.51" gave a debit of 13.51
C14_Witness ==
    /\ loader = "citi" /\ pc = "scan" /\ i >= 2
    /\ lines[i][2].t = "MEXICAN"
    /\ Len(transactions) = 1
    /\ transactions[1].Description = "PURO PA DELANTE"
    /\ transactions[1].Debit = Some(1351)
    /\ pending_description = None

\* C14 as stated: a transaction is synthesized whenever a description is
\* buffered, and none otherwise
C14_AnyBufferedDescription ==
    [][ CitiReadsPesoLine =>
            /\ pending_description' = None
            /\ IF pending_description # None THEN Emits ELSE transactions' = transactions
      ]_vars

\* a Banamex step that finalizes the pending transaction
BanamexFinalizes ==
    /\ BanamexReadsStart \/ BanamexReadsSectionEnd \/ BanamexEndsDocument
    /\ current_transaction # None

\* a pending transaction that carries a balance: two amounts or more, or the
\* single amount of a line without a description of its own
BanamexCarriesBalance(t) ==
    \/ Len(t.amounts) >= 2
    \/ /\ Len(t.amounts) = 1
       /\ \/ Flatten(t.description_lines) = << >>
          \/ HasPhrase(Upper(Texts(Flatten(t.description_lines))), <<"SALDO", "ANTERIOR">>)

\* C15: in the Banamex adapter, previous_balance is the last amount of every
\* pending transaction finalized with a balance, whether the transaction is
\* emitted or discarded for an empty or "SALDO ANTERIOR" description.
C15_PreviousBalanceFollowsEveryBalance ==
    [][ BanamexFinalizes /\ BanamexCarriesBalance(current_transaction[1]) =>
            previous_balance' =
                Some(current_transaction[1].amounts[Len(current_transaction[1].amounts)])
      ]_vars

\* C16: a Banamex transaction whose description holds a credit keyword, in
\* any letter case, is emitted as a credit whatever the movement of the
\* balance, and the balance decides only when no keyword is found; a Wells
\* Fargo line is a credit exactly when its description holds a credit keyword.
C16_KeywordDecidesCredit ==
    [][ /\ ( loader = "banamex" /\ Emits =>
               LET t == current_transaction[1]
                   keyword == BanamexHasCreditKeyword(Flatten(t.description_lines))
                   rising == /\ previous_balance # None
                             /\ t.amounts[Len(t.amounts)] > previous_balance[1]
               IN  /\ (keyword => Emitted.Credit # None /\ Emitted.Debit = None)
                   /\ (~keyword => (Emitted.Credit # None <=> rising)) )
        /\ ( WellsfargoReadsDatedLine /\ AmountValues(NewLine) # << >> =>
               /\ Emits
               /\ Emitted.Credit # None <=>
                      WellsfargoHasCreditKeyword(WellsfargoDesc(Tail(NewLine))) )
      ]_vars

\* "05 ENE abono 50.00 20.00" after a balance of 150.00: a credit
C16_Witness ==
    /\ loader = "banamex" /\ Len(lines) = 3 /\ Len(transactions) = 2
    /\ AmountValues(lines[2]) = << 18500, 15000 >>
    /\ AmountValues(lines[3]) = << 5000, 2000 >>
    /\ transactions[2].Description = "abono"
    /\ transactions[2].Credit = Some(270) /\ transactions[2].Debit = None

\* the token of a Citi line that holds the amount of its transaction: the
\* dollar amount of a MEXICAN PESO line, else the first amount of the line
CitiAmountToken(line) ==
    IF Len(line) >= 4 /\ line[2].t = "MEXICAN"
    THEN line[4]
    ELSE SelectToks(line, "amt")[1]

\* the section a Chase line was parsed in, from the lines read before it: the
\* last section marker among lines[1..n-1]
RECURSIVE ChaseSectionBefore(_)
ChaseSectionBefore(n) ==
    IF n <= 1 THEN "none"
    ELSE LET words == Texts(lines[n - 1])
         IN  IF HasPhrase(words, <<"DEPOSITS", "AND", "ADDITIONS">>) THEN "credits"
             ELSE IF HasPhrase(words, <<"ELECTRONIC", "WITHDRAWALS">>) THEN "debits"
             ELSE IF Len(words) >= 2 /\ words[1] = "Total"
                     /\ words[2] \in {"Deposits", "Electronic"} THEN "none"
             ELSE ChaseSectionBefore(n - 1)

\* the lines of a Chase document that were parsed to a record, in order
ChaseParsedLines ==
    SelectSeq([n \in 1..Len(lines) |-> n],
              LAMBDA n : /\ ChaseSectionBefore(n) # "none"
                         /\ lines[n][1].k = "date"
                         /\ ChaseSectionBefore(n + 1) = ChaseSectionBefore(n))

\* C17: every Chase record comes back as a credit when its line was read under
\* "DEPOSITS AND ADDITIONS" and as a debit when it was read under "ELECTRONIC
\* WITHDRAWALS"; a Citi amount with a leading minus sign is emitted as a
\* credit of its absolute value and any other amount as a debit.
C17_SectionAndSignDecide ==
    /\ ( loader = "chase" /\ pc = "done" =>
           \A k \in 1..Len(df) :
               /\ df[k].seq \in 1..Len(ChaseParsedLines)
               /\ LET n == ChaseParsedLines[df[k].seq]
                  IN  IF ChaseSectionBefore(n) = "credits"
                      THEN df[k].Credit = Some(lines[n][Len(lines[n])].v) /\ df[k].Debit = None
                      ELSE df[k].Debit = Some(lines[n][Len(lines[n])].v) /\ df[k].Credit = None )
    /\ ( loader = "citi" =>
           \A k \in 1..Len(transactions) :
               \E n \in 1..Len(lines) :
                   /\ SelectToks(lines[n], "amt") # << >>
                   /\ LET tok == CitiAmountToken(lines[n])
                      IN  IF tok.p \in {"-", "-$"}
                          THEN transactions[k].Credit = Some(tok.v)
                               /\ transactions[k].Debit = None
                          ELSE transactions[k].Debit = Some(tok.v)
                               /\ transactions[k].Credit = None )

\* a Citi frame with the credit of "-$50.00" and a debit
C17_Witness ==
    /\ loader = "citi" /\ pc = "done"
    /\ \E a, b \in 1..Len(df) :
        /\ df[a].Credit = Some(5000) /\ df[a].Description = "AUTOPAY AUTO-PMT"
        /\ df[b].Debit # None

\* C18: every record an adapter returns has a Date that is a calendar date:
\* no returned record has a missing (NaT) date.
C18_EveryDateResolved ==
    pc = "done" => \A k \in 1..Len(df) : df[k].Date # NaT

\* the Debit and Credit values of a row that are present
SideValues(row) ==
    (IF row.Debit # None THEN {row.Debit[1]} ELSE {})
        \cup (IF row.Credit # None THEN {row.Credit[1]} ELSE {})

\* C19: every Debit and every Credit value an adapter emits or returns is
\* non-negative; a Citi row read from a negative amount is a Credit of the
\* absolute value, and no Citi row carries the negative amount.
C19_AmountsNonNegative ==
    /\ \A k \in 1..Len(transactions) : \A x \in SideValues(transactions[k]) : x >= 0
    /\ \A k \in 1..Len(df) : \A x \in SideValues(df[k]) : x >= 0
    /\ ( loader = "citi" =>
           \A k \in 1..Len(transactions) :
               transactions[k].Description = "AUTOPAY AUTO-PMT" =>
                   transactions[k].Credit = Some(5000) /\ transactions[k].Debit = None )

\* the Citi scan has emitted the row of the line "01/03 AUTOPAY AUTO-PMT -$50.00"
C19_Witness ==
    /\ loader = "citi" /\ pc = "scan"
    /\ \E n \in 1..i : \E j \in 1..Len(lines[n]) :
           lines[n][j].k = "amt" /\ lines[n][j].p = "-$" /\ CitiAmount(lines[n][j]) = 0 - 5000
    /\ \E k \in 1..Len(transactions) : transactions[k].Credit = Some(5000)

\* C20: load_and_label_multiple_files fails only when no file of the list
\* gave a frame: once a file has parsed, no other file of the list (missing,
\* or present with no transaction in it) makes the batch fail.
C20_BatchFailsOnlyWhenNoneParses ==
    batch_pc = "error" => all_expenses = << >>

\* a missing file is skipped with a warning and the batch goes on to return
\* the frame of the file that parsed
C20_MissingFileSkipped ==
    /\ batch_pc = "done" /\ warnings = 1 /\ Len(file_list) = 2
    /\ Len(all_expenses) = 1 /\ combined # << >>

\* the parse state of the four adapters besides pc
ParseState ==
    << lines, i, in_transaction_section, current_transaction, previous_balance, pending_line,
       in_payments_section, current_cardholder, pending_description, skip_next_line,
       current_section, credits, debits, transactions, df >>

\* C21: for every adapter, the parse of a source that does not exist ends with
\* the not-found condition in its first step, leaves every part of the parse
\* state as it was, and takes no step after it, whatever lines the source
\* would have given.
C21_NotFoundBeforeAnyLine ==
    [][ /\ ( pc = "start" /\ ~filename.exists =>
               pc' = "notfound" /\ UNCHANGED ParseState )
        /\ ( ~filename.exists => pc = "start" )
        /\ ( pc' = "notfound" => ~filename.exists /\ i' = 0 /\ transactions' = << >> )
      ]_vars

\* the Citi parse of a missing source whose page would have held a transaction
C21_Witness ==
    /\ pc = "notfound" /\ loader = "citi" /\ ~filename.exists
    /\ \E n \in 1..Len(lines) : SelectToks(lines[n], "amt") # << >>
    /\ i = 0 /\ transactions = << >> /\ df = << >>

\* C22: when the scan of an existing document ends with no transaction, the
\* Banamex adapter returns the empty frame and the Chase, Citi and Wells Fargo
\* adapters raise; no adapter raises when a transaction was extracted.
C22_ZeroTransactionsPerFormat ==
    [][ pc = "scan" /\ pc' \in {"done", "error"} =>
          IF transactions' = << >>
          THEN IF loader = "banamex"
               THEN pc' = "done" /\ df' = << >>
               ELSE pc' = "error" /\ df' = df
          ELSE pc' = "done" /\ Len(df') = Len(transactions')
      ]_vars

\* a Banamex document with its header and lines but no transaction, returned empty
C22_Witness ==
    /\ loader = "banamex" /\ pc = "done" /\ df = << >> /\ transactions = << >>
    /\ Len(lines) >= 2
    /\ HasPhrase(Texts(lines[1]), <<"FECHA", "CONCEPTO">>)

\* C23: after any sequence of save_corrections calls, with or without a store
\* file at the start, the store holds no two rows with the same
\* (Description, Category) pair.
C23_StoreHasNoDuplicates ==
    corrections_file # None =>
        \A a, b \in 1..Len(corrections_file[1]) :
            a # b => corrections_file[1][a] # corrections_file[1][b]

\* a row of the store at position a before the call is at position Pos[a] after it
StoreKeeps(old, new) ==
    \E pos \in [1..Len(old) -> 1..Len(new)] :
        /\ \A a \in 1..Len(old) : new[pos[a]] = old[a]
        /\ \A a, b \in 1..Len(old) : a < b => pos[a] < pos[b]

\* C24: a save_corrections call over an existing store keeps every pair of the
\* store, in the same relative order, and the store after the call holds
\* every pair of the frame saved.
C24_StoreAppendOnly ==
    [][ corrections_file # None =>
          /\ corrections_file' # None
          /\ StoreKeeps(corrections_file[1], corrections_file'[1])
          /\ \A k \in 1..Len(corrections') :
                 \E j \in 1..Len(corrections_file'[1]) :
                     corrections_file'[1][j] = ToCsv(corrections')[k]
      ]_vars

\* the state of each adapter after the first n lines of a document, folded
\* from the state a new loader starts in
RECURSIVE BanamexFold(_, _, _)
BanamexFold(doc, n, year) ==
    IF n = 0 THEN [sec |-> FALSE, ct |-> None, all |-> << >>, pb |-> None]
    ELSE BanamexLine(BanamexFold(doc, n - 1, year), doc[n], year)

RECURSIVE WellsfargoFold(_, _, _)
WellsfargoFold(doc, n, year) ==
    IF n = 0 THEN [sec |-> FALSE, pending |-> None, all |-> << >>]
    ELSE WellsfargoLine(WellsfargoFold(doc, n - 1, year), doc[n], year)

RECURSIVE ChaseFold(_, _, _)
ChaseFold(doc, n, year) ==
    IF n = 0 THEN [section |-> None, credits |-> << >>, debits |-> << >>]
    ELSE ChaseLine(ChaseFold(doc, n - 1, year), doc[n], year)

RECURSIVE CitiFold(_, _, _)
CitiFold(page, n, f) ==
    IF n = 0 THEN [sec |-> FALSE, pay |-> FALSE, holder |-> None, pending |-> None,
                   skip |-> FALSE, all |-> << >>]
    ELSE CitiLine(CitiFold(page, n - 1, f), page, n - 1, f)

\* the transactions a new loader extracts from the document read
FreshTransactions ==
    LET year == YearOf(filename)
    IN  CASE loader = "banamex" ->
                 LET st == BanamexFold(lines, Len(lines), year)
                 IN  BanamexFinalize(st.ct, st.all, st.pb, year).all
          [] loader = "wellsfargo" ->
                 LET st == WellsfargoFold(lines, Len(lines), year)
                 IN  WellsfargoFlush(st.pending, st.all, year)
          [] loader = "chase" ->
                 LET st == ChaseFold(lines, Len(lines), year)
                 IN  ChaseCombine(st.credits, st.debits)
          [] OTHER -> CitiFold(lines, Len(lines), filename).all

\* C25: a call on a loader that has parsed another document before starts
\* from the initial section state, pending transaction, pending description
\* and previous balance, and ends with the transactions that a new loader
\* extracts from the same document.
C25_NoCrossDocumentState ==
    /\ ( pc = "scan" /\ i = 0 =>
           /\ in_transaction_section = FALSE /\ in_payments_section = FALSE
           /\ current_transaction = None /\ pending_line = None
           /\ pending_description = None /\ previous_balance = None
           /\ current_section = None /\ transactions = << >> )
    /\ ( pc \in {"done", "error"} => transactions = FreshTransactions )
    /\ ( pc = "done" =>
           df \in ( CASE loader = "banamex" -> BanamexResult(FreshTransactions)
                      [] loader = "wellsfargo" -> WellsfargoResult(FreshTransactions)
                      [] loader = "chase" -> ChaseResult(FreshTransactions)
                      [] OTHER -> CitiResult(FreshTransactions) ) )

\* the second call of a Banamex loader has returned a transaction classified
\* without a previous balance
C25_Witness ==
    /\ calls = 1 /\ loader = "banamex" /\ pc = "done"
    /\ Len(lines) = 2 /\ AmountValues(lines[2]) = << 3600, 10000 >>
    /\ Len(df) = 1 /\ df[1].Debit # None

\* a line that starts with a metadata prefix or is made of 8 digits or more
StartsAsMetadata(line) ==
    \/ Len(line) >= 2 /\ line[1].t \in {"SUC", "CAJA", "HORA", "AUT"}
    \/ Len(line) = 1 /\ line[1].t = "12345678"

\* C26: in the Banamex adapter a metadata line read while a transaction is
\* open adds nothing to the description of the transaction and emits nothing;
\* the amounts it carries become the amounts of the transaction, and without
\* amounts of its own it leaves them as they are.
C26_MetadataNotDescription ==
    [][ BanamexReadsContinuation /\ StartsAsMetadata(NewLine) =>
          /\ current_transaction' # None
          /\ current_transaction'[1].description_lines
                 = current_transaction[1].description_lines
          /\ current_transaction'[1].amounts =
                 IF AmountValues(NewLine) # << >>
                 THEN AmountValues(NewLine)
                 ELSE current_transaction[1].amounts
          /\ transactions' = transactions
      ]_vars

\* the transaction "03 ENE COMPRA" after the line "SUC 0123 185.00 150.00"
C26_Witness ==
    /\ loader = "banamex" /\ pc = "scan" /\ Len(lines) = 3
    /\ lines[2] = StartWithoutAmountsLine /\ lines[3] = SucLine
    /\ current_transaction # None
    /\ Len(current_transaction[1].description_lines) = 1
    /\ current_transaction[1].amounts = << 18500, 15000 >>

\* C27: no content of a line makes the parse of an existing document fail:
\* a parse raises only at the end of the document, and only when no
\* transaction was extracted.
C27_OnlyNoTransactionsRaises ==
    /\ pc # "raised"
    /\ ( pc = "error" => transactions = << >> )

\* a Banamex step that reads, inside the section, a page marker
BanamexReadsPageMarker ==
    /\ loader = "banamex" /\ pc = "scan" /\ pc' = "scan"
    /\ in_transaction_section
    /\ Len(NewLine) >= 2 /\ NewLine[1].t = "Pagina"

\* a Banamex step that reads, outside the section, a line that is neither the
\* header of the table nor a summary marker
BanamexReadsOutside ==
    /\ loader = "banamex" /\ pc = "scan" /\ pc' = "scan"
    /\ ~in_transaction_section
    /\ ~HasPhrase(Texts(NewLine), <<"FECHA", "CONCEPTO">>)
    /\ ~HasPhrase(Texts(NewLine), <<"Resumen", "Operaciones">>)
    /\ ~(Len(NewLine) >= 2 /\ NewLine[1].t = "TARJETA")

\* C28: in the Banamex adapter a page marker read inside the section puts the
\* scan outside the section and keeps the open transaction; outside the
\* section a line is ignored until the header is read again; the transaction
\* kept is finalized at the next start line, summary marker or end of the
\* document, and emitted there when its amounts resolve.
C28_PageMarkerKeepsTransaction ==
    [][ /\ ( BanamexReadsPageMarker =>
               /\ in_transaction_section' = FALSE
               /\ current_transaction' = current_transaction
               /\ transactions' = transactions /\ previous_balance' = previous_balance )
        /\ ( BanamexReadsOutside =>
               UNCHANGED << in_transaction_section, current_transaction, transactions,
                            previous_balance >> )
        /\ ( BanamexFinalizes /\ BanamexEmittable(current_transaction[1]) =>
               /\ Emits
               /\ Emitted.Description = JoinText(Flatten(current_transaction[1].description_lines))
               /\ AmountOf(Emitted) = ConvertToDollars(current_transaction[1].amounts[1]) )
      ]_vars

\* the transaction open at the page marker is returned at the end of the document
C28_Witness ==
    /\ loader = "banamex" /\ pc = "done" /\ Len(lines) = 4
    /\ lines[1] = BanamexHeaderLine
    /\ AmountValues(lines[2]) = << 3600, 10000 >>
    /\ lines[3] = PageMarkerLine
    /\ lines[4] = AmazonLine
    /\ Len(df) = 1 /\ df[1].Description = "COMPRA"

\* C29: every parse over a finite document ends: each pass of the scan takes
\* the one next line, the lines read before stay as they were, and the call
\* comes to rest having returned or raised.
C29_EveryParseTerminates ==
    /\ [][ pc = "scan" /\ pc' = "scan" =>
             /\ i' = i + 1
             /\ i' <= Len(lines')
             /\ SubSeq(lines', 1, i) = SubSeq(lines, 1, i) ]_vars
    /\ <>[](pc \in {"done", "error", "notfound", "raised"})

\* a Citi parse that has visited the three lines of its page and returned
C29_Witness ==
    /\ loader = "citi" /\ pc = "done" /\ Len(lines) = 3 /\ i = 3 /\ df # << >>

\* C30: in the Banamex adapter a step that reads a continuation line appends
\* no record, also when the line brings the amounts that resolve the pending
\* transaction; a record is appended only by a step that reads a start line
\* or a summary marker or that ends the document, and one record at most.
C30_FlushOnlyAtBoundary ==
    [][ loader = "banamex" =>
          /\ ( BanamexReadsContinuation => transactions' = transactions )
          /\ ( transactions' # transactions =>
                 /\ Emits
                 /\ SubSeq(transactions', 1, Len(transactions)) = transactions
                 /\ BanamexReadsStart \/ BanamexReadsSectionEnd \/ BanamexEndsDocument )
      ]_vars

\* a pending transaction resolved by the continuation line just read and not
\* yet emitted
C30_Witness ==
    /\ loader = "banamex" /\ pc = "scan" /\ Len(lines) >= 3
    /\ lines[Len(lines)] = AmountBalanceLine
    /\ current_transaction # None
    /\ BanamexEmittable(current_transaction[1])
    /\ current_transaction[1].amounts = << 100000, 250000 >>
    /\ transactions = << >>

\* a Wells Fargo step that reads, with a line pending, a line that is not a
\* 'Totals' line and does not start with a date
WellsfargoReadsNonDate ==
    /\ loader = "wellsfargo" /\ pc = "scan" /\ pc' = "scan"
    /\ pending_line # None
    /\ ~(NewLine # << >> /\ NewLine[1].t = "Totals")
    /\ ~(Len(NewLine) >= 2 /\ NewLine[1].k = "date")

\* the pending line and the line read, joined by one space
MergedLine == pending_line[1] \o NewLine

\* the line read is merged onto the pending line: one transaction is emitted
\* from the merged text when it holds an amount, and the merged text is the
\* pending line otherwise
MergesNewLine ==
    IF AmountValues(MergedLine) # << >>
    THEN /\ Len(transactions') = Len(transactions) + 1
         /\ SubSeq(transactions', 1, Len(transactions)) = transactions
         /\ Emitted.Description = JoinText(WellsfargoDesc(Tail(MergedLine)))
         /\ AmountOf(Emitted) = AmountValues(MergedLine)[1]
         /\ pending_line' = None
    ELSE /\ transactions' = transactions
         /\ pending_line' = Some(MergedLine)

\* a pending line is dropped, never emitted, at the next line that starts with
\* a date, at a 'Totals' line and at the end of the document
PendingLineDiscarded ==
    /\ ( WellsfargoReadsStart /\ pending_line # None =>
            IF AmountValues(NewLine) # << >>
            THEN /\ Len(transactions') = Len(transactions) + 1
                 /\ Emitted.Description = JoinText(WellsfargoDesc(Tail(NewLine)))
            ELSE transactions' = transactions )
    /\ ( (WellsfargoReadsTotals \/ WellsfargoEndsDocument) /\ pending_line # None =>
            transactions' = transactions )
    /\ ( WellsfargoReadsTotals => pending_line' = None )

\* C31: in Wells Fargo a line that starts with a date and has no amount is
\* held as the pending line; each following line that does not start with a
\* date, is not a 'Totals' or 'Transaction history' line and is not a column
\* header is merged onto it with one space until the merged text holds an
\* amount, and then exactly one transaction is emitted and nothing is pending;
\* a 'Transaction history' line and a column header leave the pending line as
\* it is; a pending line that got no amount is dropped, never emitted, at the
\* next line that starts with a date, at a 'Totals' line and at the end.
C31_PendingLineMerged ==
    [][ /\ ( WellsfargoReadsStart /\ AmountValues(NewLine) = << >> =>
               pending_line' = Some(NewLine) )
        /\ ( WellsfargoReadsNonDate =>
               IF \/ HasPhrase(Texts(NewLine), <<"Transaction", "history">>)
                  \/ WellsfargoIsHeader(NewLine)
               THEN pending_line' = pending_line /\ transactions' = transactions
               ELSE MergesNewLine )
        /\ PendingLineDiscarded
      ]_vars

\* "1/7 Transfer From", "Savings" and "Payment 25.00" made one transaction
C31_Witness ==
    /\ loader = "wellsfargo" /\ pc = "scan" /\ Len(lines) >= 3
    /\ SubSeq(lines, Len(lines) - 2, Len(lines)) = << TransferFromLine, SavingsLine, PaymentLine >>
    /\ Len(transactions) = 1
    /\ transactions[1].Description = "Transfer From Savings Payment"
    /\ pending_line = None

\* every line after the pending line that does not start with a date and is
\* not a 'Totals' line is merged onto it
C31_EveryNonDateLineMerged ==
    [][ WellsfargoReadsNonDate => MergesNewLine ]_vars

\* a Citi step that handles, with a description pending, a line that reads
\* "date amount" ("12/12 $68.00")
CitiReadsDateAmount ==
    /\ loader = "citi" /\ pc = "scan" /\ pc' = "scan" /\ ~skip_next_line
    /\ pending_description # None
    /\ Len(CitiCurrentLine) >= 2
    /\ CitiCurrentLine[1].k = "date" /\ CitiCurrentLine[2].k = "amt"

\* the year of a Citi transaction of month m
CitiYearOfMonth(m) ==
    IF m > StatementMonthNum(filename) THEN YearOf(filename) - 1 ELSE YearOf(filename)

\* C32: in the Citi adapter the year rollover is applied on every emission
\* path: a transaction made from a pending description and a MEXICAN PESO
\* line takes the month of the date that starts the description, one made
\* from a pending description and a "date amount" line and one parsed from a
\* transaction line take the month of the line, and each is dated in the
\* statement year minus one exactly when that month is greater than the
\* statement month, and in the statement year otherwise.
C32_RolloverOnEveryPath ==
    [][ loader = "citi" /\ pc = "scan" /\ Emits =>
            /\ Emitted.Date.m = IF CitiReadsPesoLine
                                THEN pending_description[1][1].m
                                ELSE CitiCurrentLine[1].m
            /\ Emitted.Date.y = CitiYearOfMonth(Emitted.Date.m)
            /\ (CitiReadsPesoLine \/ CitiReadsDateAmount \/ CitiCurrentLine[1].k = "date")
      ]_vars

\* in a statement of June 2026, "12/20 PURO PA DELANTE" with its MEXICAN PESO
\* line is dated 2025 and "01/03 AUTOPAY AUTO-PMT -$50.00" is dated 2026
C32_Witness ==
    /\ loader = "citi" /\ pc = "scan" /\ filename.match /\ filename.mon = "jun"
    /\ Len(transactions) = 2
    /\ transactions[1].Description = "PURO PA DELANTE"
    /\ transactions[1].Date = [d |-> 20, m |-> 12, y |-> 2025]
    /\ transactions[2].Date = [d |-> 3, m |-> 1, y |-> 2026]

\* in a statement of June 2026, "BREW CITY BRAND" with "12/12 $68.00" is
\* dated 2025
C32_WitnessDateAmount ==
    /\ loader = "citi" /\ pc = "scan" /\ filename.match /\ filename.mon = "jun"
    /\ i >= 2 /\ lines[i] = DateAmountOnlyLine /\ lines[i - 1] = BrewCityLine
    /\ Len(transactions) = 1
    /\ transactions[1].Description = "BREW CITY BRAND"
    /\ transactions[1].Date = [d |-> 12, m |-> 12, y |-> 2025]

\* a step of Wells Fargo, Chase or Citi that goes from the last line of a page
\* to the first line of the next
PageTurns ==
    /\ loader \in {"wellsfargo", "chase", "citi"} /\ pc = "scan" /\ pc' = "scan"
    /\ page_begin' > page_begin

\* C33: in Chase, Citi and Wells Fargo the parse state (the section; for Citi
\* also the cardholder, the payments-section flag and the pending description;
\* for Wells Fargo also the pending line) at the first line of a page is its
\* value after the last line of the page before, and the transactions emitted
\* so far are kept.
C33_StateKeptAcrossPages ==
    [][ PageTurns =>
            /\ (loader = "chase" => current_section' = current_section)
            /\ (loader = "wellsfargo" =>
                    /\ in_transaction_section' = in_transaction_section
                    /\ pending_line' = pending_line)
            /\ (loader = "citi" =>
                    /\ in_transaction_section' = in_transaction_section
                    /\ in_payments_section' = in_payments_section
                    /\ current_cardholder' = current_cardholder
                    /\ pending_description' = pending_description)
            /\ transactions' = transactions /\ credits' = credits /\ debits' = debits
      ]_vars

\* "12/20 PURO PA DELANTE" ended a page under "Standard Purchases" and the
\* MEXICAN PESO line that started the next page made its transaction
C33_Witness ==
    /\ loader = "citi" /\ pc = "scan"
    /\ page_begin = 2 /\ i = 3
    /\ lines[2] = PuroDecemberLine /\ lines[3] = PesoAmountLine
    /\ Len(transactions) = 1
    /\ transactions[1].Description = "PURO PA DELANTE"

\* C34: in the Citi adapter, while the payments section is active, a MEXICAN
\* PESO amount line makes no transaction even when a description is pending;
\* the pending description is cleared and the line is consumed, the section
\* state staying as it was.
C34_NoPesoTransactionInPayments ==
    [][ CitiReadsPesoLine /\ in_payments_section =>
            /\ transactions' = transactions
            /\ pending_description' = None
            /\ i' = i + 1
            /\ in_payments_section' /\ in_transaction_section' = in_transaction_section
            /\ current_cardholder' = current_cardholder /\ ~skip_next_line'
      ]_vars

\* under "Payments, Credits and Adjustments", "12/20 PURO PA DELANTE" was
\* pending when the MEXICAN PESO line was read, and nothing was emitted
C34_Witness ==
    /\ loader = "citi" /\ pc = "scan" /\ i = 3
    /\ lines[1] = << W("Payments,"), W("Credits"), W("and"), W("Adjustments") >>
    /\ lines[2] = PuroDecemberLine /\ lines[3] = PesoAmountLine
    /\ in_payments_section
    /\ transactions = << >>
    /\ pending_description = None

\* the entries of a frame whose lower-cased description is a substring of the
\* lower-cased description of a row
MatchingEntries(frame, row) ==
    { k \in 1..Len(frame) :
        IsSubstring(StrLower(frame[k].Description), StrLower(row.Description)) }

\* the category of the first entry of a frame that matches a row
FirstMatchCategory(frame, row) ==
    LET found == MatchingEntries(frame, row)
        k0 == CHOOSE k \in found : \A h \in found : k <= h
    IN  frame[k0].Category

\* C35: apply_corrections gives each expense row the category of the first
\* corrections entry, in table order, whose lower-cased description is a
\* substring of the lower-cased description of the row; with no such entry,
\* that of the first historical labelled entry that is such a substring; with
\* none either, the category the row had; nothing else of the row changes.
C35_CorrectionsBeforeLabels ==
    [][ stage = "predicted" /\ stage' = "corrected" =>
            /\ Len(expenses') = Len(expenses)
            /\ \A j \in 1..Len(expenses) :
                   /\ expenses'[j].Category =
                        IF MatchingEntries(corrections_df, expenses[j]) # {}
                        THEN FirstMatchCategory(corrections_df, expenses[j])
                        ELSE IF MatchingEntries(all_labeled_expenses, expenses[j]) # {}
                        THEN FirstMatchCategory(all_labeled_expenses, expenses[j])
                        ELSE expenses[j].Category
                   /\ expenses'[j] = [expenses[j] EXCEPT !.Category = expenses'[j].Category]
      ]_vars

\* "AMZN" matched "amz" (Shopping) before "MZN" (Food) and before the label
\* "AMZN" (Travel); "UBER" matched the label "ber" only
C35_Witness ==
    /\ stage = "corrected"
    /\ Len(expenses) = 2 /\ Len(corrections_df) = 2 /\ Len(all_labeled_expenses) = 1
    /\ corrections_df[1] = [Description |-> Str(<< "a", "m", "z" >>), Category |-> Str("Shopping")]
    /\ corrections_df[2] = [Description |-> Str(<< "M", "Z", "N" >>), Category |-> Str("Food")]
    /\ expenses[1].Description = Str(AMZN) /\ expenses[1].Category = Str("Shopping")
    /\ all_labeled_expenses[1].Description = Str(<< "b", "e", "r" >>)
    /\ expenses[2].Description = Str(UBER) /\ expenses[2].Category = Str("Travel")

\* C36: summarize_by_category returns for each category Net equal to its
\* summed Debit minus its summed Credit, a missing sum counting as 0.
C36_NetIsDebitMinusCredit ==
    stage = "summarized" =>
        \A k \in 1..Len(summary) :
            /\ summary[k].Debit = SumColumn(expenses, summary[k].Category, "Debit")
            /\ summary[k].Credit = SumColumn(expenses, summary[k].Category, "Credit")
            /\ summary[k].Net = summary[k].Debit - summary[k].Credit

\* C37: no adapter emits a transaction from a line scanned while it is outside
\* the sections: a Citi, Wells Fargo or Chase step that emits a transaction,
\* and a Banamex step that takes amounts into the open transaction, is a step
\* on a line read inside a section; for Citi this includes the transaction
\* made from a pending description and a MEXICAN PESO line.
C37_NoEmissionOutsideSection ==
    [][ /\ ( loader = "citi" /\ pc = "scan" /\ pc' = "scan" /\ Emits =>
               in_transaction_section )
        /\ ( loader = "wellsfargo" /\ pc = "scan" /\ pc' = "scan" /\ Emits =>
               in_transaction_section )
        /\ ( loader = "chase" /\ pc = "scan" /\ pc' = "scan"
               /\ (credits' # credits \/ debits' # debits) =>
               current_section # None )
        /\ ( loader = "banamex" /\ pc = "scan" /\ pc' = "scan"
               /\ current_transaction' # None /\ current_transaction' # current_transaction =>
               in_transaction_section )
      ]_vars

\* C38: in the Citi adapter the placeholder "PENDING_DESCRIPTION" is the
\* description of no emitted transaction: a transaction parsed from a line of
\* dates and an amount only has a description from the pending buffer or from
\* one of the three lines before it on the page.
C38_NoPlaceholderDescription ==
    loader = "citi" =>
        /\ \A k \in 1..Len(transactions) : transactions[k].Description # "PENDING_DESCRIPTION"
        /\ \A k \in 1..Len(df) : df[k].Description # "PENDING_DESCRIPTION"

\* a line of one or two dates and an amount, with no description
CitiIsAmountOnly(line) ==
    \/ Len(line) = 3 /\ line[1].k = "date" /\ line[2].k = "date" /\ CitiIsAmount(line[3])
    \/ Len(line) = 2 /\ line[1].k = "date" /\ CitiIsAmount(line[2])

\* a Citi step that reads, inside a section, the second of two consecutive
\* lines of dates and an amount only that follow one description line of the
\* page, the first of them having been emitted with that description
CitiReadsSecondAmountOnly ==
    /\ loader = "citi" /\ pc = "scan" /\ pc' = "scan" /\ ~skip_next_line
    /\ in_transaction_section
    /\ i - page_begin >= 2
    /\ CitiIsAmountOnly(lines[i + 1]) /\ CitiIsAmountOnly(lines[i])
    /\ CitiIsDescriptionOnly(lines[i - 1])
    /\ ~CitiIsPurchasesHeader(lines[i - 1], current_cardholder)
    /\ ~HasPhrase(Texts(lines[i - 1]), <<"Payments,", "Credits", "and", "Adjustments">>)
    /\ (i - page_begin = 2 \/ ~CitiIsPrevDescription(lines[i - 2]))
    /\ Len(transactions) >= 1
    /\ transactions[Len(transactions)].Description = JoinText(lines[i - 1])
    /\ AmountOf(transactions[Len(transactions)]) = lines[i][Len(lines[i])].v

\* C39: in the Citi adapter a description line is the description of at most
\* one emitted transaction: of two consecutive lines of dates and an amount
\* only that follow one description line, the second is not emitted with the
\* description the first has used.
C39_DescriptionUsedOnce ==
    [][ CitiReadsSecondAmountOnly /\ Emits =>
            Emitted.Description # JoinText(lines[i - 1])
      ]_vars

\* C40: in the Banamex adapter, a finalized transaction whose description
\* holds no credit keyword is emitted as a debit when no previous balance is
\* known, and also when its balance equals the previous balance.
C40_DebitWithoutRisingBalance ==
    [][ /\ loader = "banamex" /\ Emits
        /\ ~BanamexHasCreditKeyword(Flatten(current_transaction[1].description_lines))
        /\ LET amounts == current_transaction[1].amounts
           IN  \/ previous_balance = None
               \/ previous_balance = Some(amounts[Len(amounts)])
        => Emitted.Debit # None /\ Emitted.Credit = None
      ]_vars

\* "04 ENE COMPRA 36.00 100.00" twice after the header: the first is emitted
\* with no previous balance, the second with a balance equal to it, both debits
C40_Witness ==
    /\ loader = "banamex" /\ Len(lines) = 3 /\ Len(transactions) = 2
    /\ lines[1] = BanamexHeaderLine
    /\ AmountValues(lines[2]) = << 3600, 10000 >>
    /\ lines[3] = lines[2]
    /\ previous_balance = Some(10000)
    /\ \A n \in 1..2 : /\ transactions[n].Description = "COMPRA"
                       /\ transactions[n].Debit # None
                       /\ transactions[n].Credit = None

====
